---- MODULE Spec2Model ----
(***************************************************************************)
(* A model of the nubia shell framework: the interactive grammar parser    *)
(* (parser.py), the argument resolver and invoker (cmdbase.py), the CLI    *)
(* re-mapping (typing/argparse.py), the command registry (registry.py),    *)
(* the event bus (io/eventbus.py), the interactive loop (interactive.py)   *)
(* and the shell driver (nubia.py).                                        *)
(*                                                                         *)
(* Text is a sequence of one-character strings, so that the grammar, the   *)
(* name transformations and the str()/int() conversions are computed on    *)
(* characters as the code computes them.  A Python value is a record       *)
(* [t |-> tag, v |-> payload].                                             *)
(***************************************************************************)
EXTENDS Integers, Sequences, FiniteSets, TLC

VARIABLES
    op,                 \* the last operation and its inputs
    result,             \* what the last operation returned (or the exception that left it)
    calls,              \* the callables the last operation invoked, in order, with their kwargs
    printed,            \* the message the last operation printed: its kind and the names it lists
    verbose,            \* ctx.args.verbose
    cmd_instance_map,   \* CommandsRegistry._cmd_instance_map
    listeners,          \* CommandsRegistry._listeners
    delivered,          \* listeners whose on_connected body ran during the last dispatch
    stop_requested,     \* IOLoop.stop_requested
    loop_pc,            \* where IOLoop.run is: "reading", "done" (returned) or "crashed" (an exception left it)
    lines_read,         \* number of lines IOLoop.run has read
    exit_code           \* what Nubia.run returned: the process exit code

vars == <<op, result, calls, printed, verbose, cmd_instance_map, listeners, delivered,
          stop_requested, loop_pc, lines_read, exit_code>>

---------------------------------------------------------------------------
(* Characters *)

LowerChars == {"a","b","c","d","e","f","g","h","i","j","k","l","m",
               "n","o","p","q","r","s","t","u","v","w","x","y","z"}
UpperChars == {"A","B","C","D","E","F","G","H","I","J","K","L","M",
               "N","O","P","Q","R","S","T","U","V","W","X","Y","Z"}
Alphas == LowerChars \cup UpperChars
Digits == {"0","1","2","3","4","5","6","7","8","9"}
Alphanums == Alphas \cup Digits
\* a symbol set that also lets = into an unquoted string
allowed_symbols_with_equals ==
    {"-","_","/","#","@","$","%","*","+","~","|","<",">","?",".","="}
\* allowed_symbols_in_string, its ASCII part (no input of the model holds a
\* pound or euro sign)
allowed_symbols_in_string ==
    {"-","_","/","#","@","$","%","*","+","~","|","<",">","?","."}
QuoteChars == {"\"", "'"}

LowerSeq == <<"a","b","c","d","e","f","g","h","i","j","k","l","m",
              "n","o","p","q","r","s","t","u","v","w","x","y","z">>
UpperSeq == <<"A","B","C","D","E","F","G","H","I","J","K","L","M",
              "N","O","P","Q","R","S","T","U","V","W","X","Y","Z">>

\* str.lower()
lower(text) ==
    [i \in 1..Len(text) |->
        IF text[i] \in UpperChars
        THEN LowerSeq[CHOOSE n \in 1..26 : UpperSeq[n] = text[i]]
        ELSE text[i]]

Cat(ss) == \* concatenation of a sequence of texts
    LET RECURSIVE go(_)
        go(i) == IF i > Len(ss) THEN <<>> ELSE ss[i] \o go(i + 1)
    IN go(1)

Join(sep, ss) == \* sep.join(ss)
    LET RECURSIVE go(_)
        go(i) == IF i > Len(ss) THEN <<>>
                 ELSE IF i = Len(ss) THEN ss[i]
                 ELSE ss[i] \o sep \o go(i + 1)
    IN go(1)

DigitVal(c) ==
    CASE c = "0" -> 0 [] c = "1" -> 1 [] c = "2" -> 2 [] c = "3" -> 3
      [] c = "4" -> 4 [] c = "5" -> 5 [] c = "6" -> 6 [] c = "7" -> 7
      [] c = "8" -> 8 [] c = "9" -> 9

DigitChar(n) == <<"0","1","2","3","4","5","6","7","8","9">>[n + 1]

DigitsToNat(ds) ==
    LET RECURSIVE go(_, _)
        go(i, acc) == IF i > Len(ds) THEN acc
                      ELSE go(i + 1, acc * 10 + DigitVal(ds[i]))
    IN go(1, 0)

NatToDigits(n) ==
    LET RECURSIVE go(_)
        go(m) == IF m < 10 THEN <<DigitChar(m)>>
                 ELSE go(m \div 10) \o <<DigitChar(m % 10)>>
    IN go(n)

StripLeadingZeros(ds) == \* at least one digit is kept
    LET RECURSIVE go(_)
        go(i) == IF i >= Len(ds) \/ ds[i] # "0" THEN SubSeq(ds, i, Len(ds))
                 ELSE go(i + 1)
    IN IF ds = <<>> THEN <<"0">> ELSE go(1)

StripTrailingZeros(ds) ==
    LET RECURSIVE go(_)
        go(j) == IF j = 0 \/ ds[j] # "0" THEN SubSeq(ds, 1, j) ELSE go(j - 1)
    IN go(Len(ds))

---------------------------------------------------------------------------
(* Python values *)

PyNone == [t |-> "none", v |-> 0]
PyBool(b) == [t |-> "bool", v |-> b]
PyInt(n) == [t |-> "int", v |-> n]
PyStr(s) == [t |-> "str", v |-> s]
PyList(xs) == [t |-> "list", v |-> xs]
\* a float: sign, integer digits (no leading zeros), fraction digits (no
\* trailing zeros); two floats are equal iff these are
PyFloat(neg, ip, fd) == [t |-> "float", v |-> <<neg, ip, fd>>]
\* an exception leaving a call
Raised(name) == [t |-> "raised", v |-> name]
\* SystemExit out of the argv parser
SystemExit == [t |-> "raised", v |-> "SystemExit"]

IsRaised(x) == x.t = "raised"

Truthy(x) == \* bool(x)
    CASE x.t = "none" -> FALSE
      [] x.t = "bool" -> x.v
      [] x.t = "int" -> x.v # 0
      [] x.t = "str" -> x.v # <<>>
      [] x.t = "list" -> x.v # <<>>
      [] x.t = "float" -> ~(x.v[2] = <<"0">> /\ x.v[3] = <<>>)
      [] OTHER -> TRUE

FloatStr(x) == \* str(float), for magnitudes printed in positional notation
    (IF x.v[1] THEN <<"-">> ELSE <<>>) \o x.v[2] \o <<".">>
        \o (IF x.v[3] = <<>> THEN <<"0">> ELSE x.v[3])

RECURSIVE PyRepr(_)
PyToStr(x) == \* str(x)
    CASE x.t = "str" -> x.v
      [] x.t = "bool" -> IF x.v THEN <<"T","r","u","e">> ELSE <<"F","a","l","s","e">>
      [] x.t = "int" -> (IF x.v < 0 THEN <<"-">> \o NatToDigits(-x.v) ELSE NatToDigits(x.v))
      [] x.t = "float" -> FloatStr(x)
      [] x.t = "none" -> <<"N","o","n","e">>
      [] x.t = "list" ->
            <<"[">> \o Join(<<",", " ">>, [i \in 1..Len(x.v) |-> PyRepr(x.v[i])]) \o <<"]">>
PyRepr(x) == \* repr(x); a string is shown in single quotes
    IF x.t = "str" THEN <<"'">> \o x.v \o <<"'">> ELSE PyToStr(x)

---------------------------------------------------------------------------
(* parser.py: the interactive grammar.  Every token skips the white space   *)
(* in front of it, as pyparsing's tokens do.                                *)

NoMatch == [ok |-> FALSE]

\* F applied to the value of e: the local name a statement gives a value
Bind(e, F(_)) == F(e)

\* a | b (pp.MatchFirst): the first alternative that matches
OrElse(a, b) == IF a.ok THEN a ELSE b

\* first index >= i that holds no space (Len + 1 at the end of the text)
SkipWs(text, i) ==
    LET RECURSIVE go(_)
        go(j) == IF j > Len(text) \/ text[j] # " " THEN j ELSE go(j + 1)
    IN go(i)

\* first index >= i whose character is not in cs
SpanEnd(text, i, cs) ==
    LET RECURSIVE go(_)
        go(j) == IF j > Len(text) \/ text[j] \notin cs THEN j ELSE go(j + 1)
    IN go(i)

StartsWith(text, i, lit) ==
    /\ i + Len(lit) - 1 <= Len(text)
    /\ SubSeq(text, i, i + Len(lit) - 1) = lit

\* pp.Word(init, body)
Word(text, i0, init, body) ==
    LET i == SkipWs(text, i0)
    IN IF i <= Len(text) /\ text[i] \in init
       THEN LET e == SpanEnd(text, i + 1, body)
            IN [ok |-> TRUE, tok |-> SubSeq(text, i, e - 1), next |-> e]
       ELSE NoMatch

identifier(text, i) ==
    Word(text, i, Alphas \cup {"_", "-"}, Alphanums \cup {"_", "-"})

\* _str_transform: x.strip("\"'")
_str_transform(x) ==
    LET a == SpanEnd(x, 1, QuoteChars)
        RECURSIVE back(_)
        back(j) == IF j < a \/ x[j] \notin QuoteChars THEN j ELSE back(j - 1)
    IN SubSeq(x, a, back(Len(x)))

\* bool_value: the literal True, true, False or false at i (a prefix match)
bool_value(text, i0) ==
    LET i == SkipWs(text, i0)
    IN IF StartsWith(text, i, <<"T","r","u","e">>) \/ StartsWith(text, i, <<"t","r","u","e">>)
       THEN [ok |-> TRUE, val |-> PyBool(TRUE), next |-> i + 4]
       ELSE IF StartsWith(text, i, <<"F","a","l","s","e">>)
                \/ StartsWith(text, i, <<"f","a","l","s","e">>)
       THEN [ok |-> TRUE, val |-> PyBool(FALSE), next |-> i + 5]
       ELSE NoMatch

\* float(): the digits of the integer part, of the fraction and the exponent
\* give the value, the decimal point moved right by the exponent
FloatOf(neg, ipd, fdd, ex) ==
    LET pad == fdd \o [k \in 1..ex |-> "0"]
        ip == StripLeadingZeros(ipd \o SubSeq(pad, 1, ex))
        fd == StripTrailingZeros(SubSeq(pad, ex + 1, Len(pad)))
    IN PyFloat(neg, ip, fd)

\* float_value: Regex(r"\-?\d+\.\d*([eE]\d+)?")
float_value(text, i0) ==
    LET i == SkipWs(text, i0)
        neg == i <= Len(text) /\ text[i] = "-"
        d1 == IF neg THEN i + 1 ELSE i
        d2 == SpanEnd(text, d1, Digits)
        f2 == SpanEnd(text, d2 + 1, Digits)
        hasExp == /\ f2 <= Len(text) /\ text[f2] \in {"e", "E"}
                  /\ SpanEnd(text, f2 + 1, Digits) > f2 + 1
        e2 == IF hasExp THEN SpanEnd(text, f2 + 1, Digits) ELSE f2
        ex == IF hasExp THEN DigitsToNat(SubSeq(text, f2 + 1, e2 - 1)) ELSE 0
    IN IF d2 > d1 /\ d2 <= Len(text) /\ text[d2] = "."
       THEN [ok |-> TRUE,
             val |-> FloatOf(neg, SubSeq(text, d1, d2 - 1), SubSeq(text, d2 + 1, f2 - 1), ex),
             next |-> e2]
       ELSE NoMatch

\* int_value: Regex(r"\-?\d+")
int_value(text, i0) ==
    LET i == SkipWs(text, i0)
        neg == i <= Len(text) /\ text[i] = "-"
        d1 == IF neg THEN i + 1 ELSE i
        d2 == SpanEnd(text, d1, Digits)
        n == DigitsToNat(SubSeq(text, d1, d2 - 1))
    IN IF d2 > d1
       THEN [ok |-> TRUE, val |-> PyInt(IF neg THEN -n ELSE n), next |-> d2]
       ELSE NoMatch

\* quoted_string: pp.quotedString, up to the next quote of the same kind (the
\* texts of the model hold no backslash and no doubled quote inside a string)
quoted_string(text, i0) ==
    LET i == SkipWs(text, i0)
    IN IF i <= Len(text) /\ text[i] \in QuoteChars
       THEN LET e == SpanEnd(text, i + 1, (Alphanums \cup allowed_symbols_in_string
                                           \cup QuoteChars \cup {" ", ",", "=", "[", "]"})
                                          \ {text[i]})
            IN IF e <= Len(text)
               THEN [ok |-> TRUE, val |-> PyStr(_str_transform(SubSeq(text, i, e))),
                     next |-> e + 1]
               ELSE NoMatch
       ELSE NoMatch

\* unquoted_string: pp.Word(alphanums + allowed_symbols_in_string)
unquoted_string(text, i) ==
    Bind(Word(text, i, Alphanums \cup allowed_symbols_in_string,
              Alphanums \cup allowed_symbols_in_string),
         LAMBDA w : IF w.ok
                    THEN [ok |-> TRUE, val |-> PyStr(_str_transform(w.tok)), next |-> w.next]
                    ELSE NoMatch)

\* string_value = quoted_string | unquoted_string
string_value(text, i) == OrElse(quoted_string(text, i), unquoted_string(text, i))

\* single_value = bool_value | float_value | string_value | int_value: the
\* first alternative that matches, in this order
single_value(text, i) ==
    OrElse(bool_value(text, i),
           OrElse(float_value(text, i), OrElse(string_value(text, i), int_value(text, i))))

\* pp.Suppress(lit)
Lit(text, i0, c) ==
    LET i == SkipWs(text, i0)
    IN IF i <= Len(text) /\ text[i] = c THEN [ok |-> TRUE, next |-> i + 1] ELSE NoMatch

\* list_value: "[" + Optional(delimitedList(single_value)) + "]"
RECURSIVE delimitedList(_, _, _, _)
\* the elements from i on: the first one (sep = FALSE), then ZeroOrMore("," +
\* single_value)
delimitedList(text, i, acc, sep) ==
    Bind(IF sep THEN Lit(text, i, ",") ELSE [ok |-> TRUE, next |-> i], LAMBDA c :
    Bind(IF c.ok THEN single_value(text, c.next) ELSE NoMatch, LAMBDA e :
         IF e.ok THEN delimitedList(text, e.next, Append(acc, e.val), TRUE)
         ELSE [elems |-> acc, next |-> i]))

list_value(text, i0) ==
    Bind(Lit(text, i0, "["), LAMBDA open :
         IF ~open.ok THEN NoMatch
         ELSE Bind(delimitedList(text, open.next, <<>>, FALSE), LAMBDA body :
              Bind(Lit(text, body.next, "]"), LAMBDA close :
                   IF close.ok
                   THEN [ok |-> TRUE, val |-> PyList(body.elems), next |-> close.next]
                   ELSE NoMatch)))

\* value = list_value ^ single_value ^ dict_value.  A list starts with "[",
\* which no single value does, so at most one of the two matches.
value(text, i) == OrElse(list_value(text, i), single_value(text, i))

\* pp.Dict: a key given twice keeps its first place and its last value
DictPut(kv, k, v) ==
    IF \E n \in 1..Len(kv) : kv[n].k = k
    THEN [n \in 1..Len(kv) |-> IF kv[n].k = k THEN [k |-> k, v |-> v] ELSE kv[n]]
    ELSE Append(kv, [k |-> k, v |-> v])

\* key_value: ZeroOrMore(Group(identifier + "=" + value))
RECURSIVE key_value(_, _, _)
key_value(text, i, acc) ==
    Bind(identifier(text, i), LAMBDA id :
    Bind(IF id.ok THEN Lit(text, id.next, "=") ELSE NoMatch, LAMBDA eq :
    Bind(IF eq.ok THEN value(text, eq.next) ELSE NoMatch, LAMBDA va :
         IF va.ok THEN key_value(text, va.next, DictPut(acc, id.tok, va.val))
         ELSE [kv |-> acc, next |-> i])))

\* positionals: ZeroOrMore(value + (StringEnd ^ OneOrMore(White)))
RECURSIVE positionals(_, _, _)
positionals(text, i, acc) ==
    Bind(value(text, i), LAMBDA va :
         IF va.ok /\ (\/ SkipWs(text, va.next) > Len(text)
                      \/ (va.next <= Len(text) /\ text[va.next] = " "))
         THEN positionals(text, SkipWs(text, va.next), Append(acc, va.val))
         ELSE [pos |-> acc, next |-> i])

NoSubcommand == <<>>

\* parse(text, expect_subcommand): command_with_subcommand or command, with
\* parseAll=True; [ok |-> FALSE] stands for the CommandParseError
parse(text, expect_subcommand) ==
    Bind(IF expect_subcommand THEN identifier(text, 1) ELSE NoMatch, LAMBDA id :
    Bind(key_value(text, IF id.ok THEN id.next ELSE 1, <<>>), LAMBDA kvs :
    Bind(positionals(text, kvs.next, <<>>), LAMBDA ps :
         IF SkipWs(text, ps.next) > Len(text)
         THEN [ok |-> TRUE,
               subcommand |-> IF id.ok THEN id.tok ELSE NoSubcommand,
               kv |-> kvs.kv, positionals |-> ps.pos]
         ELSE [ok |-> FALSE, col |-> ps.next])))

---------------------------------------------------------------------------
(* helpers.py, typing/builder.py: names and type coercion *)

\* transform_name(name, from_char, to_char): runs of from_char become one
\* to_char, then one leading and one trailing to_char are dropped.  (The
\* ValueError for an empty result cannot happen for the names of the model.)
transform_name(name, from_char, to_char) ==
    LET RECURSIVE sub(_)
        sub(i) == IF i > Len(name) THEN <<>>
                  ELSE IF name[i] = from_char
                  THEN <<to_char>> \o sub(SpanEnd(name, i, {from_char}))
                  ELSE <<name[i]>> \o sub(i + 1)
        n1 == sub(1)
        a == IF n1 # <<>> /\ n1[1] = to_char THEN 2 ELSE 1
        n2 == SubSeq(n1, a, Len(n1))
        b == IF n2 # <<>> /\ n2[Len(n2)] = to_char THEN Len(n2) - 1 ELSE Len(n2)
    IN SubSeq(n2, 1, b)

\* text.strip() of white space
StripWs(x) ==
    LET a == SkipWs(x, 1)
        RECURSIVE back(_)
        back(j) == IF j < a \/ x[j] # " " THEN j ELSE back(j - 1)
    IN SubSeq(x, a, back(Len(x)))

\* whether int(text) accepts the text: an optional sign, then digits, single
\* underscores allowed between digits
IsIntText(x0) ==
    LET x == StripWs(x0)
        d == IF x # <<>> /\ x[1] \in {"-", "+"} THEN SubSeq(x, 2, Len(x)) ELSE x
    IN /\ d # <<>>
       /\ d[1] \in Digits /\ d[Len(d)] \in Digits
       /\ \A i \in 1..Len(d) : d[i] \in Digits \cup {"_"}
       /\ \A i \in 1..(Len(d) - 1) : ~(d[i] = "_" /\ d[i + 1] = "_")

IntOfText(x0) ==
    LET x == StripWs(x0)
        neg == x[1] = "-"
        d == IF x[1] \in {"-", "+"} THEN SubSeq(x, 2, Len(x)) ELSE x
        n == DigitsToNat(SelectSeq(d, LAMBDA c : c \in Digits))
    IN IF neg THEN -n ELSE n

\* int(value): ValueError for a text that is no integer, TypeError for a list
PyIntOf(x) ==
    CASE x.t = "int" -> x
      [] x.t = "bool" -> PyInt(IF x.v THEN 1 ELSE 0)
      [] x.t = "float" -> PyInt(IF x.v[1] THEN -DigitsToNat(x.v[2]) ELSE DigitsToNat(x.v[2]))
      [] x.t = "str" -> IF IsIntText(x.v) THEN PyInt(IntOfText(x.v)) ELSE Raised("ValueError")
      [] OTHER -> Raised("TypeError")

\* the declared types of the model's arguments
TNone == "None"
TStr == "str"
TInt == "int"
TAny == "Any"
TListStr == "List[str]"
TListInt == "List[int]"

IsListType(tp) == tp \in {TListStr, TListInt}

\* .__args__[0] of a list type
ElemType(tp) == IF tp = TListStr THEN TStr ELSE TInt

\* the function get_typing_function picks for a scalar type
ScalarTyping(x, tp) ==
    CASE tp = TAny -> x
      [] tp = TStr -> PyStr(PyToStr(x))
      [] tp = TInt -> PyIntOf(x)

\* _apply_list_type(value, value_type)
_apply_list_type(x, elem) ==
    LET xs == IF x.t = "list" THEN x.v ELSE <<x>>
        ys == [i \in 1..Len(xs) |-> ScalarTyping(xs[i], elem)]
    IN IF \E i \in 1..Len(ys) : IsRaised(ys[i])
       THEN ys[CHOOSE i \in 1..Len(ys) :
                   IsRaised(ys[i]) /\ \A j \in 1..(i - 1) : ~IsRaised(ys[j])]
       ELSE PyList(ys)

\* the generic types other than lists
TMapStrInt == "Mapping[str, int]"
TTupleStrInt == "Tuple[str, int]"
TOptInt == "Optional[int]"

PyTuple(xs) == [t |-> "tuple", v |-> xs]
\* a dict: its items, a sequence of [k, v]
PyDict(kvs) == [t |-> "dict", v |-> kvs]

\* the first exception in a sequence of converted values, or the value made
\* of them when none raised
FirstRaisedOr(ys, made) ==
    IF \E i \in 1..Len(ys) : IsRaised(ys[i])
    THEN ys[CHOOSE i \in 1..Len(ys) : IsRaised(ys[i]) /\ \A j \in 1..(i - 1) : ~IsRaised(ys[j])]
    ELSE made

\* _apply_dict_type(value, key_type, value_type): value.items() is an
\* AttributeError for everything but a dict; key and value of each item are
\* converted in turn
_apply_dict_type(x, key_type, value_type) ==
    IF x.t # "dict" THEN Raised("AttributeError")
    ELSE Bind([i \in 1..(2 * Len(x.v)) |->
                 IF i % 2 = 1 THEN ScalarTyping(x.v[(i + 1) \div 2].k, key_type)
                 ELSE ScalarTyping(x.v[i \div 2].v, value_type)], LAMBDA ys :
         FirstRaisedOr(ys, PyDict([n \in 1..Len(x.v) |-> [k |-> ys[2 * n - 1], v |-> ys[2 * n]]])))

\* _apply_tuple_type(value, *types): len(value) is a TypeError for a number,
\* a boolean or None; a text is taken character by character; a length
\* other than len(types) is a ValueError
_apply_tuple_type(x, types) ==
    IF x.t \notin {"str", "list", "tuple"} THEN Raised("TypeError")
    ELSE Bind(IF x.t = "str" THEN [i \in 1..Len(x.v) |-> PyStr(<<x.v[i]>>)] ELSE x.v,
              LAMBDA items :
         IF Len(items) # Len(types) THEN Raised("ValueError")
         ELSE Bind([i \in 1..Len(items) |-> ScalarTyping(items[i], types[i])], LAMBDA ys :
              FirstRaisedOr(ys, PyTuple(ys))))

\* _apply_optional_type(value, left_type, _right_type)
_apply_optional_type(x, left_type) ==
    IF x = PyNone THEN PyNone ELSE ScalarTyping(x, left_type)

\* apply_typing(value, tp) = get_typing_function(tp)(value): a mapping, a
\* tuple, an iterable and an optional type are looked for in this order
apply_typing(x, tp) ==
    IF tp = TMapStrInt THEN _apply_dict_type(x, TStr, TInt)
    ELSE IF tp = TTupleStrInt THEN _apply_tuple_type(x, <<TStr, TInt>>)
    ELSE IF IsListType(tp) THEN _apply_list_type(x, ElemType(tp))
    ELSE IF tp = TOptInt THEN _apply_optional_type(x, TInt)
    ELSE ScalarTyping(x, tp)

---------------------------------------------------------------------------
(* ordered dicts: a sequence of [k, v] with distinct keys *)

Keys(d) == {d[n].k : n \in 1..Len(d)}
Has(d, k) == k \in Keys(d)
Get(d, k) == d[CHOOSE n \in 1..Len(d) : d[n].k = k].v
Del(d, k) == SelectSeq(d, LAMBDA e : e.k # k)
\* d.update(d2)
Update(d, d2) ==
    LET RECURSIVE go(_, _)
        go(i, acc) == IF i > Len(d2) THEN acc ELSE go(i + 1, DictPut(acc, d2[i].k, d2[i].v))
    IN go(1, d)
\* the dict as an unordered mapping
AsMap(d) == [k \in Keys(d) |-> Get(d, k)]

---------------------------------------------------------------------------
(* typing/__init__.py: the metadata inspect_object builds *)

\* Argument(arg, description, type, default_value_set, default_value, name,
\* extra_names, positional, choices), without the description
Argument(arg, name, type, default_value_set, default_value, extra_names, positional, choices) ==
    [arg |-> arg, name |-> name, type |-> type,
     default_value_set |-> default_value_set, default_value |-> default_value,
     extra_names |-> extra_names, positional |-> positional, choices |-> choices]

\* FunctionInspection of a function or a method: its Command tuple and its
\* arguments in signature order; fn is the callable
Inspection(fn, name, aliases, exclusive_arguments, arguments) ==
    [fn |-> fn, name |-> name, aliases |-> aliases,
     exclusive_arguments |-> exclusive_arguments, arguments |-> arguments,
     subcommands |-> <<>>]

\* FunctionInspection of a class: subcommands are (attribute, inspection)
\* pairs in dir() order
SuperInspection(fn, name, aliases, arguments, subcommands) ==
    [fn |-> fn, name |-> name, aliases |-> aliases,
     exclusive_arguments |-> {}, arguments |-> arguments,
     subcommands |-> subcommands]

\* set(args_metadata): the display names
ArgNames(arguments) == {arguments[n].name : n \in 1..Len(arguments)}
\* args_metadata[key]
ArgOf(arguments, key) == arguments[CHOOSE n \in 1..Len(arguments) : arguments[n].name = key]

---------------------------------------------------------------------------
(* typing/argparse.py: get_arguments_for_inspection *)

\* names_to_args.get(name, name): the entries of the display names, updated
\* with those of the extra names, later entries replacing earlier ones
NamesToArgs(arguments, name) ==
    LET byExtra == {n \in 1..Len(arguments) :
                      \E e \in arguments[n].extra_names : transform_name(e, "_", "_") = name}
        byName == {n \in 1..Len(arguments) : transform_name(arguments[n].name, "_", "_") = name}
        last(S) == CHOOSE n \in S : \A m \in S : m <= n
    IN IF byExtra # {} THEN arguments[last(byExtra)].arg
       ELSE IF byName # {} THEN arguments[last(byName)].arg
       ELSE name

\* get_arguments_for_inspection(inspection, kwargs): kwargs re-keyed to the
\* parameter names, keeping only the parameters of the callable
get_arguments_for_inspection(arguments, kwargs) ==
    LET valid_args == {arguments[n].arg : n \in 1..Len(arguments)}
        RECURSIVE go(_, _)
        go(i, acc) ==
            IF i > Len(kwargs) THEN acc
            ELSE LET a == NamesToArgs(arguments, kwargs[i].k)
                 IN go(i + 1, IF a \in valid_args THEN DictPut(acc, a, kwargs[i].v) ELSE acc)
    IN go(1, <<>>)

\* {k: v for k, v in ... if v is not None}
DropNone(d) == SelectSeq(d, LAMBDA e : e.v # PyNone)

---------------------------------------------------------------------------
(* context.py *)

\* Context.set_verbose(raw_value): the new verbosity, or the exception that
\* leaves it (int() of a list is a TypeError, which is not caught)
set_verbose(raw_value) ==
    LET n == PyIntOf(raw_value)
    IN IF n = Raised("ValueError")
       THEN PyInt(IF lower(raw_value.v) = <<"t","r","u","e">> THEN 1 ELSE 0)
       ELSE n

---------------------------------------------------------------------------
(* cmdbase.py: AutoCommand *)

\* what an operation leaves behind: its result (or the exception that left
\* it), the callables it invoked, the message it printed, the verbosity
Outcome(res, cs, msg, names, vb) ==
    [result |-> res, calls |-> cs, printed |-> [msg |-> msg, names |-> names], verbose |-> vb]

Call(fn, kwargs) == [fn |-> fn, kwargs |-> AsMap(kwargs)]

\* the reserved key of the verbosity override
s_verbose == <<"v","e","r","b","o","s","e">>

\* the exceptions `except Exception` does not catch
BaseExceptions == {"KeyboardInterrupt", "SystemExit"}

\* issubclass_(tp, typing.List): a subscripted generic is no class, so
\* issubclass raises TypeError and issubclass_ answers False
issubclass_List(tp) == FALSE

\* positional arguments without the filter: every positional argument
NoFilterPositionalArguments(arguments, filter_out) ==
    LET ps == SelectSeq(arguments, LAMBDA a : a.positional)
    IN [n \in 1..Len(ps) |-> ps[n].name]

\* _positional_arguments(args_metadata, filter_out): the display names of the
\* positional arguments not in filter_out, in signature order
_positional_arguments(arguments, filter_out) ==
    LET ps == SelectSeq(arguments, LAMBDA a : a.positional /\ a.name \notin filter_out)
    IN [n \in 1..Len(ps) |-> ps[n].name]

\* subcommand_metadata(name): the inspection whose command name is name
subcommand_metadata(c, name) ==
    LET S == {n \in 1..Len(c.subcommands) : c.subcommands[n].inspection.name = name}
    IN IF S = {} THEN NoMatch
       ELSE [ok |-> TRUE,
             inspection |-> c.subcommands[CHOOSE n \in S : \A m \in S : n <= m].inspection]

\* _find_subcommand_attr(name): the attribute whose command name or alias is name
_find_subcommand_attr(c, name) ==
    LET S == {n \in 1..Len(c.subcommands) :
                \/ c.subcommands[n].inspection.name = name
                \/ name \in c.subcommands[n].inspection.aliases}
    IN IF S = {} THEN NoMatch
       ELSE [ok |-> TRUE, attr |-> c.subcommands[CHOOSE n \in S : \A m \in S : n <= m].attr]

\* the inspection of the subcommand whose attribute is attr
SubcommandOf(c, attr) ==
    c.subcommands[CHOOSE n \in 1..Len(c.subcommands) : c.subcommands[n].attr = attr].inspection

\* the conversion loop: every value converted to the type of its argument (a
\* conversion that raises leaves the exception in its place)
Converted(arguments, args_dict) ==
    [n \in 1..Len(args_dict) |->
        [k |-> args_dict[n].k,
         v |-> apply_typing(args_dict[n].v,
                            IF ArgOf(arguments, args_dict[n].k).type = TNone THEN TStr
                            ELSE ArgOf(arguments, args_dict[n].k).type)]]

\* the first entry, in args_dict order, whose conversion raised; 0 when none did
FirstRaised(args_dict) ==
    IF \A n \in 1..Len(args_dict) : ~IsRaised(args_dict[n].v) THEN 0
    ELSE CHOOSE n \in 1..Len(args_dict) :
             IsRaised(args_dict[n].v) /\ \A m \in 1..(n - 1) : ~IsRaised(args_dict[m].v)

\* the choices loop: whether some argument with choices got a value outside them
BadChoice(arguments, args_dict) ==
    \E n \in 1..Len(args_dict) :
        LET a == ArgOf(arguments, args_dict[n].k)
            v == args_dict[n].v
        IN /\ a.choices # <<>>
           /\ IF issubclass_List(a.type)
              THEN \E i \in 1..Len(v.v) : \A j \in 1..Len(a.choices) : a.choices[j] # v.v[i]
              ELSE \A j \in 1..Len(a.choices) : a.choices[j] # v

\* a missing-keys check that stops at the first unmet argument
FirstRequiredMissing(args_metadata, supplied) ==
    LET S == {n \in 1..Len(args_metadata) :
                args_metadata[n].name \notin supplied /\ ~args_metadata[n].default_value_set}
    IN IF S = {} THEN {} ELSE {args_metadata[CHOOSE n \in S : \A m \in S : n <= m].name}

\* the missing-keys check: the declared arguments that got no value and have
\* no default, all of them
required_missing(args_metadata, supplied) ==
    LET missing_keys == ArgNames(args_metadata) \ supplied
    IN {k \in missing_keys : ~ArgOf(args_metadata, k).default_value_set}

\* the tail of run_interactive, from the positional binding on: fn is the
\* callable to invoke, args_metadata its arguments, args_dict0 the key/values
\* left for it, cs the calls made so far
Resolve(fn, command_name, args_metadata, args_dict0, positionals0, body, cs, verbose0) ==
    Bind(_positional_arguments(args_metadata, Keys(args_dict0)), LAMBDA can_be_positional :
    IF Len(positionals0) > Len(can_be_positional)
    THEN Outcome(PyInt(2), cs,
                 IF Len(can_be_positional) = 0 THEN "no_positionals" ELSE "too_many_positionals",
                 {can_be_positional[n] : n \in 1..Len(can_be_positional)}, verbose0)
    ELSE
    \* {key: value for value, key in zip(positionals, can_be_positional)}
    Bind([n \in 1..Len(positionals0) |-> [k |-> can_be_positional[n], v |-> positionals0[n]]],
         LAMBDA args_from_positionals :
    Bind(Update(args_dict0, args_from_positionals), LAMBDA args_dict1 :
    Bind(Keys(args_from_positionals) \cap Keys(args_dict0), LAMBDA duplicate_keys :
    IF duplicate_keys # {}
    THEN Outcome(PyInt(2), cs, "duplicate_keys", duplicate_keys, verbose0)
    ELSE
    Bind(IF Has(args_dict1, s_verbose) THEN set_verbose(Get(args_dict1, s_verbose))
         ELSE PyInt(verbose0), LAMBDA newVerbose :
    IF IsRaised(newVerbose)
    THEN Outcome(newVerbose, cs, "none", {}, verbose0)
    ELSE
    Bind(Del(args_dict1, s_verbose), LAMBDA args_dict2 :
    Bind(Keys(args_dict2) \ ArgNames(args_metadata), LAMBDA extra_keys :
    Bind(required_missing(args_metadata, Keys(args_dict2)), LAMBDA missing :
    IF extra_keys # {}
    THEN Outcome(PyInt(2), cs, "unknown", extra_keys, newVerbose.v)
    ELSE IF missing # {}
    THEN Outcome(PyInt(3), cs, "missing", missing, newVerbose.v)
    ELSE
    Bind(Converted(args_metadata, args_dict2), LAMBDA args_dict3 :
    Bind(FirstRaised(args_dict3), LAMBDA bad :
    IF bad # 0 /\ args_dict3[bad].v = Raised("ValueError")
    THEN Outcome(PyInt(4), cs, "cannot_convert", {args_dict3[bad].k}, newVerbose.v)
    ELSE IF bad # 0
    THEN Outcome(args_dict3[bad].v, cs, "none", {}, newVerbose.v)
    ELSE IF BadChoice(args_metadata, args_dict3)
    THEN Outcome(PyInt(4), cs, "bad_choice", {}, newVerbose.v)
    ELSE
    \* {args_metadata[k].arg: v for k, v in args_dict.items()}, then fn(**args_dict)
    Bind(Append(cs, Call(fn, [n \in 1..Len(args_dict3) |->
                                [k |-> ArgOf(args_metadata, args_dict3[n].k).arg,
                                 v |-> args_dict3[n].v]])), LAMBDA called :
    IF IsRaised(body) /\ body.v \notin BaseExceptions
    THEN Outcome(PyInt(1), called, "error_running", {}, newVerbose.v)
    ELSE IF IsRaised(body)
    THEN Outcome(body, called, "none", {}, newVerbose.v)
    ELSE Outcome(body, called, "none", {}, verbose0))))))))))))

\* _create_subcommand_obj(key_values): the constructor's kwargs and the
\* key/values it leaves
CtorKwargs(c, key_values) == DropNone(get_arguments_for_inspection(c.arguments, key_values))
CtorRemaining(c, key_values) ==
    SelectSeq(key_values, LAMBDA e : e.k \notin Keys(CtorKwargs(c, key_values)))

\* run_interactive(cmd, args, raw) of the AutoCommand c: ctor is what the
\* class constructor does (PyNone: it returns the instance), body what the
\* function or method does
run_interactive(c, cmd, args, ctor, body, verbose0) ==
    Bind(parse(args, Len(c.subcommands) > 0), LAMBDA parsed :
    IF ~parsed.ok
    THEN Outcome(PyInt(1), <<>>, "parse_error", {}, verbose0)
    ELSE IF Len(c.subcommands) = 0
    THEN Resolve(c.fn, cmd, c.arguments, parsed.kv, parsed.positionals, body, <<>>, verbose0)
    ELSE
    Bind({c.subcommands[n].inspection.name : n \in 1..Len(c.subcommands)}, LAMBDA names :
    Bind(subcommand_metadata(c, parsed.subcommand), LAMBDA sub_inspection :
    IF parsed.subcommand = NoSubcommand
    THEN Outcome(PyInt(2), <<>>, "subcommand_missing", names, verbose0)
    ELSE IF ~sub_inspection.ok
    THEN Outcome(PyInt(2), <<>>, "subcommand_invalid", names, verbose0)
    ELSE
    Bind(<<Call(c.fn, CtorKwargs(c, parsed.kv))>>, LAMBDA created :
    IF IsRaised(ctor)
    THEN Outcome(ctor, created, "none", {}, verbose0)
    ELSE Resolve(_find_subcommand_attr(c, parsed.subcommand).attr, parsed.subcommand,
                 sub_inspection.inspection.arguments, CtorRemaining(c, parsed.kv),
                 parsed.positionals, body, created, verbose0)))))

---------------------------------------------------------------------------
(* the commands of the model *)

s_arg == <<"a","r","g">>
s_arg1 == <<"a","r","g","1">>
s_arg2 == <<"a","r","g","2">>
s_arg3 == <<"a","r","g","3">>
s_shared == <<"s","h","a","r","e","d">>
s_my_arg == <<"m","y","_","a","r","g">>
s_stuff == <<"s","t","u","f","f">>
s_firstname == <<"f","i","r","s","t","n","a","m","e">>

\* an argument without @argument or with @argument(arg, positional=...): its
\* display name is transform_name(arg)
Arg(arg, type, default_value_set, default_value, positional) ==
    Argument(arg, transform_name(arg, "_", "-"), type, default_value_set, default_value,
             {}, positional, <<>>)

\* @command on a function: the command name is transform_name(__name__)
Fn(fn, name, aliases, exclusive_arguments, arguments) ==
    Inspection(fn, transform_name(name, "_", "-"), aliases, exclusive_arguments, arguments)

\* def test_command(arg1: str, arg2: str, arg3: str), arg2 and arg3 positional
test_command ==
    Fn("test_command", <<"t","e","s","t","_","c","o","m","m","a","n","d">>, {}, {},
       <<Arg(s_arg1, TStr, FALSE, PyNone, FALSE),
         Arg(s_arg2, TStr, FALSE, PyNone, TRUE),
         Arg(s_arg3, TStr, FALSE, PyNone, TRUE)>>)

\* def test_command(arg1: str = "0", arg2: str = "0") with
\* exclusive_arguments=["arg1", "arg2"], and a third argument outside the group
mutex_command ==
    Fn("mutex_command", <<"m","u","t","e","x","_","c","o","m","m","a","n","d">>, {}, {{s_arg1, s_arg2}},
       <<Arg(s_arg1, TStr, TRUE, PyStr(<<"0">>), FALSE),
         Arg(s_arg2, TStr, TRUE, PyStr(<<"0">>), FALSE),
         Arg(s_arg3, TStr, TRUE, PyStr(<<"0">>), FALSE)>>)

\* def test_command(arg: List[str]) with @argument("arg", aliases=["i"])
list_command ==
    Fn("list_command", <<"l","i","s","t","_","c","o","m","m","a","n","d">>, {}, {},
       <<Argument(s_arg, s_arg, TListStr, FALSE, PyNone, {<<"i">>}, FALSE, <<>>)>>)

\* def do_stuff(self, stuff: int) with @command(aliases=["do"])
do_stuff ==
    Fn("do_stuff", <<"d","o","_","s","t","u","f","f">>, {<<"d","o">>}, {},
       <<Arg(s_stuff, TInt, FALSE, PyNone, FALSE)>>)

\* def print_name(self, firstname: str), firstname positional
print_name ==
    Fn("print_name", <<"p","r","i","n","t","_","n","a","m","e">>, {}, {},
       <<Arg(s_firstname, TStr, FALSE, PyNone, TRUE)>>)

\* class SuperCommand with __init__(self, shared: int = 0, my_arg: int = 0);
\* transform_class_name gives super-command; subcommands in dir() order
SuperCommand ==
    SuperInspection("SuperCommand", <<"s","u","p","e","r","-","c","o","m","m","a","n","d">>, {},
       <<Arg(s_shared, TInt, TRUE, PyInt(0), FALSE),
         Arg(s_my_arg, TInt, TRUE, PyInt(0), FALSE)>>,
       <<[attr |-> "do_stuff", inspection |-> do_stuff],
         [attr |-> "print_name", inspection |-> print_name]>>)

---------------------------------------------------------------------------
(* registry.py: CommandsRegistry *)

\* AutoCommand.get_command_names(): [command.name] + command.aliases, the
\* aliases in the order given
get_command_names(c, aliases) == <<c.name>> \o aliases

\* register_command(cmd_instance, override) on the map m: the conflict test
\* looks the names up as given, the map is keyed by the lower-cased names
register_command(m, cmd_keys, cli_aliases, cmd_instance, override) ==
    LET conflicts == {n \in 1..Len(cmd_keys) : Has(m, cmd_keys[n])}
        put == [n \in 1..Len(cmd_keys) |-> [k |-> lower(cmd_keys[n]), v |-> cmd_instance]]
              \o [n \in 1..Len(cli_aliases) |-> [k |-> lower(cli_aliases[n]), v |-> cmd_instance]]
    IN IF ~override /\ conflicts # {}
       THEN [raised |-> TRUE, map |-> m]
       ELSE [raised |-> FALSE, map |-> Update(m, put)]

\* __contains__(cmd)
Contains(m, cmd) == Has(m, lower(cmd))

\* find_command(cmd): the instance, or None
find_command(m, cmd) == IF Has(m, lower(cmd)) THEN Get(m, lower(cmd)) ELSE "None"

\* the built-in commands Nubia.__init__ registers
s_connect == <<"c","o","n","n","e","c","t">>
s_quit == <<"q","u","i","t">>
s_q == <<"q">>
s_exit == <<"e","x","i","t">>

\* the commands of the approximate-matching tests: four without arguments,
\* and `@command("command_first", aliases=["first"])` on
\* test_command_1(arg: int = 22) with @argument("arg", aliases=["i"]), and
\* the like for command_second
maintenance == Inspection("maintenance", <<"m","a","i","n","t","e","n","a","n","c","e">>, {}, {}, <<>>)
malloc == Inspection("malloc", <<"m","a","l","l","o","c">>, {}, {}, <<>>)
move == Inspection("move", <<"m","o","v","e">>, {}, {}, <<>>)
list == Inspection("list", <<"l","i","s","t">>, {}, {}, <<>>)
command_first ==
    Inspection("test_command_1", <<"c","o","m","m","a","n","d","_","f","i","r","s","t">>,
               {<<"f","i","r","s","t">>}, {},
               <<Argument(s_arg, s_arg, TInt, TRUE, PyInt(22), {<<"i">>}, FALSE, <<>>)>>)
command_second ==
    Inspection("test_command_2", <<"c","o","m","m","a","n","d","_","s","e","c","o","n","d">>,
               {<<"s","e","c","o","n","d">>}, {},
               <<Argument(s_arg, s_arg, TInt, TRUE, PyInt(23), {<<"i">>}, FALSE, <<>>)>>)

\* the example of the module docstring of typing/__init__.py:
\* @command("execute") on foo(arg1: str, arg2: List[int]) with
\* @argument("arg1", aliases=["a"]) and @argument("arg2", aliases=["b"])
s_a == <<"a">>
s_b == <<"b">>
execute ==
    Inspection("foo", <<"e","x","e","c","u","t","e">>, {}, {},
               <<Argument(s_arg1, s_arg1, TStr, FALSE, PyNone, {s_a}, FALSE, <<>>),
                 Argument(s_arg2, s_arg2, TListInt, FALSE, PyNone, {s_b}, FALSE, <<>>)>>)

\* example/commands/sample_commands.py: pick(style: str, stuff: List[str],
\* code: int), each argument with choices
s_style == <<"s","t","y","l","e">>
s_code == <<"c","o","d","e">>
s_test == <<"t","e","s","t">>
s_toast == <<"t","o","a","s","t">>
s_toad == <<"t","o","a","d">>
s_red == <<"r","e","d">>
s_green == <<"g","r","e","e","n">>
s_blue == <<"b","l","u","e">>
pick ==
    Inspection("pick", <<"p","i","c","k">>, {}, {},
               <<Argument(s_style, s_style, TStr, FALSE, PyNone, {}, FALSE,
                          <<PyStr(s_test), PyStr(s_toast), PyStr(s_toad)>>),
                 Argument(s_stuff, s_stuff, TListStr, FALSE, PyNone, {}, FALSE,
                          <<PyStr(s_red), PyStr(s_green), PyStr(s_blue)>>),
                 Argument(s_code, s_code, TInt, FALSE, PyNone, {}, FALSE,
                          <<PyInt(12), PyInt(13), PyInt(14)>>)>>)

\* a command with one optional argument for each kind of type
\* get_typing_function tells apart: convert(n: int = 0, m: Mapping[str, int]
\* = None, t: Tuple[str, int] = None, o: Optional[int] = None, l: List[int]
\* = None)
s_n == <<"n">>
s_m == <<"m">>
s_t == <<"t">>
s_o == <<"o">>
s_l == <<"l">>
convert ==
    Inspection("convert", <<"c","o","n","v","e","r","t">>, {}, {},
               <<Argument(s_n, s_n, TInt, TRUE, PyInt(0), {}, FALSE, <<>>),
                 Argument(s_m, s_m, TMapStrInt, TRUE, PyNone, {}, FALSE, <<>>),
                 Argument(s_t, s_t, TTupleStrInt, TRUE, PyNone, {}, FALSE, <<>>),
                 Argument(s_o, s_o, TOptInt, TRUE, PyNone, {}, FALSE, <<>>),
                 Argument(s_l, s_l, TListInt, TRUE, PyNone, {}, FALSE, <<>>)>>)

\* tests/typing_test.py: foo(arg1, arg2) with @argument("arg1",
\* name="banana") and @argument("arg2", name="apple")
s_banana == <<"b","a","n","a","n","a">>
s_apple == <<"a","p","p","l","e">>
foo_different_name ==
    Inspection("foo_different_name", <<"f","o","o">>, {}, {},
               <<Argument(s_arg1, s_banana, TNone, FALSE, PyNone, {}, FALSE, <<>>),
                 Argument(s_arg2, s_apple, TNone, FALSE, PyNone, {}, FALSE, <<>>)>>)

\* tests/typing_test.py: __foo__bar__(arg_1, arg_2) with @argument("arg_1",
\* aliases=["_argument__1"]) and @argument("arg_2", name="_argument___2")
s_arg_1 == <<"a","r","g","_","1">>
s_arg_2 == <<"a","r","g","_","2">>
s__argument__1 == <<"_","a","r","g","u","m","e","n","t","_","_","1">>
s__argument___2 == <<"_","a","r","g","u","m","e","n","t","_","_","_","2">>
foo_bar ==
    Fn("__foo__bar__", <<"_","_","f","o","o","_","_","b","a","r","_","_">>, {}, {},
       <<Argument(s_arg_1, transform_name(s_arg_1, "_", "-"), TNone, FALSE, PyNone,
                  {s__argument__1}, FALSE, <<>>),
         Argument(s_arg_2, s__argument___2, TNone, FALSE, PyNone, {}, FALSE, <<>>)>>)

\* an explicit name with a dash: rename(arg) with @argument("arg",
\* name="my-name", aliases=["n"])
s_my_name == <<"m","y","-","n","a","m","e">>
rename ==
    Inspection("rename", <<"r","e","n","a","m","e">>, {}, {},
               <<Argument(s_arg, s_my_name, TNone, FALSE, PyNone, {s_n}, FALSE, <<>>)>>)

\* the AutoCommands of the model, by instance
AutoCommands ==
    {test_command, mutex_command, list_command, SuperCommand,
     maintenance, malloc, move, list, command_first, command_second,
     execute, pick, convert, foo_different_name, foo_bar, rename}
CommandOf(inst) == CHOOSE c \in AutoCommands : c.fn = inst

\* the registry after Nubia.__init__: the built-ins, then the plugin's
\* commands with override=True
RegistryAfterInit ==
    LET r1 == register_command(<<>>, <<s_connect>>, <<>>, "Connect", FALSE).map
        r2 == register_command(r1, <<s_quit, s_q, s_exit>>, <<>>, "Exit", FALSE).map
        r3 == register_command(r2, get_command_names(test_command, <<>>), <<>>, "test_command", TRUE).map
        r4 == register_command(r3, get_command_names(mutex_command, <<>>), <<>>, "mutex_command", TRUE).map
        r5 == register_command(r4, get_command_names(list_command, <<>>), <<>>, "list_command", TRUE).map
    IN register_command(r5, get_command_names(SuperCommand, <<>>), <<>>, "SuperCommand", TRUE).map

---------------------------------------------------------------------------
(* interactive.py: IOLoop *)

\* text.split(" ", 1)
split_command(text) ==
    LET S == {i \in 1..Len(text) : text[i] = " "}
        i == IF S = {} THEN 0 ELSE CHOOSE j \in S : \A k \in S : j <= k
    IN IF i = 0 THEN <<text>>
       ELSE <<SubSeq(text, 1, i - 1), SubSeq(text, i + 1, Len(text))>>

\* a blacklist check that lets every command through
NeverBlacklisted(ret) == FALSE

\* `ret = is_blacklisted(cmd); if ret: return ret` inside try/except
\* Exception: whether the command is refused.  An exception out of
\* is_blacklisted is reported and the command runs
Blacklisted(ret) == ~IsRaised(ret) /\ Truthy(ret)

\* evaluate_command(stdout, cmd, args, raw): blacklist is what is_blacklisted
\* does for cmd, ctor and body what the command's callables do
evaluate_command(m, cmd, args, blacklist, ctor, body, verbose0) ==
    IF ~Contains(m, cmd)
    THEN Outcome(PyNone, <<>>, "unknown_command", {cmd}, verbose0)
    ELSE IF Blacklisted(blacklist)
    THEN Outcome(blacklist, <<>>, "none", {}, verbose0)
    ELSE
    Bind(find_command(m, cmd), LAMBDA cmd_instance :
    Bind(IF cmd_instance = "Exit" THEN Outcome(Raised("EOFError"), <<>>, "none", {}, verbose0)
         ELSE IF cmd_instance = "Connect" THEN Outcome(PyInt(0), <<>>, "none", {}, verbose0)
         ELSE run_interactive(CommandOf(cmd_instance), cmd, args, ctor, body, verbose0),
         LAMBDA ran :
    IF ran.result = Raised("NotImplementedError")
    THEN [ran EXCEPT !.result = PyInt(99),
                     !.printed = [msg |-> "not_implemented", names |-> {}]]
    ELSE ran))

\* parse_and_evaluate(stdout, input)
parse_and_evaluate(m, input, blacklist, ctor, body, verbose0) ==
    LET command_parts == split_command(input)
    IN IF command_parts[1] # <<>>
       THEN evaluate_command(m, command_parts[1],
                             IF Len(command_parts) > 1 THEN command_parts[2] ELSE <<>>,
                             blacklist, ctor, body, verbose0)
       ELSE Outcome(PyNone, <<>>, "none", {}, verbose0)

---------------------------------------------------------------------------
(* typing/argparse.py: what register_command gives the argv parser, and the
   argv parser's reading of a command line.  An argv token is a text;
   options are written in full and the command word comes first *)

\* transform_argument_name(name): --name, or -n for a single character
transform_argument_name(name) ==
    LET n == transform_name(name, "_", "-")
    IN IF Len(n) > 1 THEN <<"-", "-">> \o n ELSE <<"-">> \o n

\* _argument_to_argparse_input(arg): the option strings of an optional, the
\* display name first
OptionStrings(a) == {transform_argument_name(x) : x \in {a.name} \cup a.extra_names}

\* the attribute add_argument stores the value under: the name of a
\* positional as it is, the first option string of an optional without its
\* dashes and with every - turned into _
Dest(a) ==
    IF a.positional THEN a.name
    ELSE LET n == transform_name(a.name, "_", "-")
         IN [i \in 1..Len(n) |-> IF n[i] = "-" THEN "_" ELSE n[i]]

\* the type= the option gets: the element type for a list (nargs="+")
ArgparseType(a, text) ==
    LET tp == IF IsListType(a.type) THEN ElemType(a.type) ELSE a.type
    IN IF tp = TInt THEN PyIntOf(PyStr(text)) ELSE PyStr(text)

IsOption(tok) == Len(tok) >= 2 /\ tok[1] = "-"
EqualsAt(tok) ==
    LET S == {i \in 1..Len(tok) : tok[i] = "="}
    IN IF S = {} THEN 0 ELSE CHOOSE i \in S : \A j \in S : i <= j
OptionString(tok) == IF EqualsAt(tok) = 0 THEN tok ELSE SubSeq(tok, 1, EqualsAt(tok) - 1)
ExplicitArg(tok) == SubSeq(tok, EqualsAt(tok) + 1, Len(tok))

\* the optional of the parser that owns the option string; 0 when none does
OptionArg(arguments, optstr) ==
    LET S == {n \in 1..Len(arguments) :
                ~arguments[n].positional /\ optstr \in OptionStrings(arguments[n])}
    IN IF S = {} THEN 0 ELSE CHOOSE n \in S : \A m \in S : n <= m

\* `argument_values is not action.default`: the converted value and the
\* default are the same object only when equal and shared by the
\* interpreter (one-character texts, small integers)
SameObject(converted, default) ==
    /\ converted = default
    /\ \/ converted.t = "str" /\ Len(converted.v) <= 1
       \/ converted.t = "int" /\ converted.v >= -5 /\ converted.v <= 256

\* the arguments register_command put with a in one mutually exclusive group
Conflicts(arguments, exclusive_arguments, n) ==
    {m \in 1..Len(arguments) :
        m # n /\ \E g \in exclusive_arguments : arguments[n].name \in g /\ arguments[m].name \in g}

\* the index after the run of words that starts at i
RECURSIVE SpanWords(_, _)
SpanWords(toks, i) == IF i > Len(toks) \/ IsOption(toks[i]) THEN i ELSE SpanWords(toks, i + 1)

\* one pass of a parser over its tokens: options are consumed with their
\* values, the first word ends the pass when the parser has subparsers
RECURSIVE Consume(_, _, _, _, _, _)
Consume(arguments, exclusive_arguments, stopAtWord, toks, i, acc) ==
    IF acc.err \/ acc.sub # <<>> \/ i > Len(toks) THEN acc
    ELSE IF ~IsOption(toks[i])
    THEN IF stopAtWord
         THEN [acc EXCEPT !.sub = <<toks[i]>>, !.rest = SubSeq(toks, i + 1, Len(toks))]
         ELSE Consume(arguments, exclusive_arguments, stopAtWord, toks, i + 1,
                      [acc EXCEPT !.words = Append(@, toks[i])])
    ELSE
    Bind(OptionArg(arguments, OptionString(toks[i])), LAMBDA n :
    IF n = 0
    THEN Consume(arguments, exclusive_arguments, stopAtWord, toks, i + 1,
                 [acc EXCEPT !.extras = Append(@, toks[i])])
    ELSE
    Bind(arguments[n], LAMBDA a :
    \* the texts of the option: the one after =, or the words that follow
    \* (all of them for nargs="+", one otherwise)
    Bind(IF EqualsAt(toks[i]) # 0 THEN <<ExplicitArg(toks[i])>>
         ELSE IF IsListType(a.type) THEN SubSeq(toks, i + 1, SpanWords(toks, i + 1) - 1)
         ELSE SubSeq(toks, i + 1, IF SpanWords(toks, i + 1) > i + 1 THEN i + 1 ELSE i),
         LAMBDA texts :
    Bind([j \in 1..Len(texts) |-> ArgparseType(a, texts[j])], LAMBDA vals :
    IF texts = <<>> \/ \E j \in 1..Len(vals) : IsRaised(vals[j])
    THEN [acc EXCEPT !.err = TRUE]
    ELSE
    Bind(IF IsListType(a.type) THEN PyList(vals) ELSE vals[1], LAMBDA val :
    Bind(~SameObject(val, a.default_value), LAMBDA nondefault :
    IF nondefault /\ Conflicts(arguments, exclusive_arguments, n) \cap acc.nondefault # {}
    THEN [acc EXCEPT !.err = TRUE]
    ELSE Consume(arguments, exclusive_arguments, stopAtWord, toks,
                 IF EqualsAt(toks[i]) # 0 THEN i + 1 ELSE i + 1 + Len(texts),
                 [acc EXCEPT !.ns = DictPut(@, Dest(a), val),
                             !.seen = @ \cup {n},
                             !.nondefault = IF nondefault THEN @ \cup {n} ELSE @])))))))

s__cmd == <<"_","c","m","d">>
s__subcmd == <<"_","s","u","b","c","m","d">>

NoPass == [ns |-> <<>>, seen |-> {}, nondefault |-> {}, extras |-> <<>>, words |-> <<>>,
           sub |-> <<>>, rest |-> <<>>, err |-> FALSE]

\* the defaults a parser puts in the namespace for the optionals not given;
\* the options copied from the parent have default SUPPRESS
WithDefaults(ns, arguments) ==
    LET d == SelectSeq(arguments, LAMBDA a : ~a.positional /\ ~Has(ns, Dest(a)))
    IN ns \o [n \in 1..Len(d) |-> [k |-> Dest(d[n]), v |-> d[n].default_value]]

\* the parser of a command or subcommand without subparsers: own are its
\* arguments, copied the parent's optionals.  Missing required optionals or
\* positionals are an error; surplus words are left over
LeafParser(own, copied, exclusive_arguments, toks) ==
    Bind(Consume(own \o copied, exclusive_arguments, FALSE, toks, 1, NoPass), LAMBDA p :
    Bind(SelectSeq(own, LAMBDA a : a.positional), LAMBDA pos :
    IF \/ p.err
       \/ Len(p.words) < Len(pos)
       \/ \E n \in 1..Len(own) : ~own[n].positional /\ ~own[n].default_value_set /\ n \notin p.seen
    THEN [p EXCEPT !.err = TRUE]
    ELSE
    Bind([n \in 1..Len(pos) |-> [k |-> Dest(pos[n]), v |-> ArgparseType(pos[n], p.words[n])]],
         LAMBDA vals :
    IF \E n \in 1..Len(vals) : IsRaised(vals[n].v)
    THEN [p EXCEPT !.err = TRUE]
    ELSE [p EXCEPT !.ns = WithDefaults(Update(@, vals), own),
                   !.extras = @ \o SubSeq(p.words, Len(pos) + 1, Len(p.words))])))

\* the parser of a super-command: its options up to the subcommand word,
\* which is required and must be a name or alias of a subcommand; the rest
\* goes to that subcommand's parser
SuperParser(c, toks) ==
    Bind(Consume(c.arguments, {}, TRUE, toks, 1, NoPass), LAMBDA p :
    IF p.err \/ p.sub = <<>> \/ ~_find_subcommand_attr(c, p.sub[1]).ok
    THEN [p EXCEPT !.err = TRUE]
    ELSE
    Bind(SubcommandOf(c, _find_subcommand_attr(c, p.sub[1]).attr), LAMBDA sub :
    Bind(LeafParser(sub.arguments, c.arguments, sub.exclusive_arguments, p.rest), LAMBDA q :
    IF q.err THEN q
    ELSE [q EXCEPT !.ns = Update(DictPut(WithDefaults(p.ns, c.arguments), s__subcmd,
                                         PyStr(p.sub[1])), q.ns),
                   !.extras = p.extras \o q.extras])))

\* the top parser: the command word selects the command's parser, which
\* add_parser(name, aliases=aliases) put under the name and the aliases as
\* they are written
parse_known_args(m, cli_args) ==
    IF \/ cli_args = <<>>
       \/ IsOption(cli_args[1])
       \/ find_command(m, cli_args[1]) \notin {c0.fn : c0 \in AutoCommands}
       \/ \A c0 \in AutoCommands : cli_args[1] \notin ({c0.name} \cup c0.aliases)
    THEN [NoPass EXCEPT !.err = TRUE]
    ELSE
    Bind(CommandOf(find_command(m, cli_args[1])), LAMBDA c :
    Bind(IF Len(c.subcommands) > 0 THEN SuperParser(c, SubSeq(cli_args, 2, Len(cli_args)))
         ELSE LeafParser(c.arguments, <<>>, c.exclusive_arguments,
                         SubSeq(cli_args, 2, Len(cli_args))), LAMBDA p :
    [p EXCEPT !.ns = <<[k |-> s__cmd, v |-> PyStr(cli_args[1])]>> \o @]))

\* cli_args.remove(extra_arg): without the first occurrence
Remove(toks, tok) ==
    LET S == {i \in 1..Len(toks) : toks[i] = tok}
        i == CHOOSE j \in S : \A k \in S : j <= k
    IN IF S = {} THEN toks ELSE SubSeq(toks, 1, i - 1) \o SubSeq(toks, i + 1, Len(toks))

RECURSIVE RemoveAll(_, _)
RemoveAll(toks, extras) ==
    IF extras = <<>> THEN toks ELSE RemoveAll(Remove(toks, Head(extras)), Tail(extras))

\* Nubia._parse_args(cli_args), the binary name already removed: the
\* namespace, or SystemExit when the argv parser reports an error.  Tokens the
\* first pass leaves over are moved to the end and the line is parsed again,
\* now with nothing allowed to be left over
_parse_args(m, cli_args) ==
    Bind(parse_known_args(m, cli_args), LAMBDA p1 :
    IF p1.err THEN SystemExit
    ELSE IF p1.extras = <<>> THEN [t |-> "namespace", v |-> p1.ns]
    ELSE
    Bind(parse_known_args(m, RemoveAll(cli_args, p1.extras) \o p1.extras), LAMBDA p2 :
    IF p2.err \/ p2.extras # <<>> THEN SystemExit
    ELSE [t |-> "namespace", v |-> p2.ns]))

---------------------------------------------------------------------------
(* cmdbase.py: AutoCommand.run_cli, and nubia.py *)

\* _kwargs_for_fn(fn, args): the namespace re-keyed to the callable's
\* parameters, the None values dropped
_kwargs_for_fn(arguments, ns) == DropNone(get_arguments_for_inspection(arguments, ns))

\* AutoCommand.run_cli(args) of the command c
AutoCommand_run_cli(c, ns, ctor, body, verbose0) ==
    Bind(<<Call(c.fn, _kwargs_for_fn(c.arguments, ns))>>, LAMBDA first :
    IF Len(c.subcommands) = 0
    THEN IF IsRaised(body) /\ body.v \notin BaseExceptions
         THEN Outcome(PyInt(1), first, "error_running", {}, verbose0)
         ELSE Outcome(body, first, "none", {}, verbose0)
    ELSE IF IsRaised(ctor)
    THEN IF ctor.v \notin BaseExceptions
         THEN Outcome(PyInt(1), first, "error_running", {}, verbose0)
         ELSE Outcome(ctor, first, "none", {}, verbose0)
    ELSE
    Bind(_find_subcommand_attr(c, Get(ns, s__subcmd).v).attr, LAMBDA attrname :
    Bind(Append(first, Call(attrname, _kwargs_for_fn(SubcommandOf(c, attrname).arguments, ns))),
         LAMBDA called :
    IF IsRaised(body) /\ body.v \notin BaseExceptions
    THEN Outcome(PyInt(1), called, "error_running", {}, verbose0)
    ELSE Outcome(body, called, "none", {}, verbose0))))

\* Nubia.run_cli(args)
Nubia_run_cli(m, ns, blacklist, ctor, body, verbose0) ==
    IF Blacklisted(blacklist)
    THEN Outcome(blacklist, <<>>, "none", {}, verbose0)
    ELSE AutoCommand_run_cli(CommandOf(find_command(m, Get(ns, s__cmd).v)), ns, ctor, body, verbose0)

\* the tail of Nubia.run: the exit code for what run_cli returned
ExitCode(ret) ==
    IF ret.t = "int" THEN ret.v
    ELSE IF ret.t = "bool" THEN (IF ~ret.v THEN 1 ELSE 0)
    ELSE IF ret = PyNone THEN 0
    ELSE 1

\* Nubia.run(cli_args) for a line that names a command: what run_cli left
\* behind, and the process exit code or the exception that leaves run
Nubia_run(m, cli_args, blacklist, ctor, body, verbose0) ==
    Bind(_parse_args(m, cli_args), LAMBDA args :
    IF IsRaised(args)
    THEN [out |-> Outcome(args, <<>>, "usage", {}, verbose0), exit_code |-> args]
    ELSE
    Bind(Nubia_run_cli(m, args.v, blacklist, ctor, body, verbose0), LAMBDA out :
    [out |-> out,
     exit_code |-> IF IsRaised(out.result) THEN out.result
                   ELSE PyInt(ExitCode(out.result))]))

---------------------------------------------------------------------------
(* registry.py and io/eventbus.py: listeners *)

\* register_priority_listener(instance): self._listeners.insert(0, instance)
register_priority_listener(ls, instance) == <<instance>> \o ls

\* a registration that leaves a listener already in the list where it is
register_listener_once(ls, instance) ==
    IF \E i \in 1..Len(ls) : ls[i] = instance THEN ls ELSE Append(ls, instance)
\* register_listener(instance): self._listeners.append(instance)
register_listener(ls, instance) == Append(ls, instance)

\* Listener.react(msg) is an `async def`: calling it makes a coroutine and
\* runs none of its body.  awaited is what the body would do once awaited:
\* on_connected runs, NotImplementedError is raised again, any other
\* exception is logged
react(instance) ==
    [t |-> "coroutine",
     awaited |-> [ran |-> instance.id,
                  raised |-> IF instance.on_connected = Raised("NotImplementedError")
                             THEN instance.on_connected ELSE PyNone]]

\* dispatch_message(msg): `for mod in self._listeners: mod.react(msg)`; the
\* coroutines are dropped, none is awaited, so no on_connected runs and
\* nothing is raised
dispatch_message(ls) ==
    [result |-> PyNone,
     delivered |-> <<>>,
     dropped |-> [i \in 1..Len(ls) |-> react(ls[i])]]

---------------------------------------------------------------------------
(* the inputs *)

MaxTokens == 3
MaxItems == 3

\* the sequences of at most n members of T
SeqsUpTo(T, n) == UNION {[1..k -> T] : k \in 0..n}

\* key=value
KV(k, v) == k \o <<"=">> \o v

s_1 == <<"1">>
s_2 == <<"2">>
s_5 == <<"5">>
s_15 == <<"1","5">>
s_nubia == <<"n","u","b","i","a">>
s_zz == <<"z","z">>
s_do_stuff == <<"d","o","-","s","t","u","f","f">>
s_do == <<"d","o">>
s_my_arg_dash == <<"m","y","-","a","r","g">>

\* the tokens of the interactive lines, by command
Tokens(c) ==
    IF c = test_command
    THEN {KV(s_arg1, s_1), KV(s_arg2, s_2), s_2, s_nubia, KV(s_zz, s_1)}
    ELSE IF c = mutex_command
    THEN {KV(s_arg1, s_1), KV(s_arg2, s_2), KV(s_arg3, s_5)}
    ELSE {s_do_stuff, s_do, KV(s_shared, s_15), KV(s_my_arg_dash, s_15),
          KV(s_my_arg, s_15), KV(s_stuff, s_5), s_nubia}

\* the command name and the tokens, one space between them
Line(c, toks) == Join(<<" ">>, <<c.name>> \o toks)

\* the argv items of the command lines, by command: an option with its
\* value, as one token or as two, or a word
Flag(k) == <<"-", "-">> \o k
Items(c) ==
    IF c = test_command
    THEN {<<KV(Flag(s_arg1), s_1)>>, <<s_2>>, <<s_nubia>>, <<KV(Flag(s_zz), s_1)>>}
    ELSE IF c = mutex_command
    THEN {<<KV(Flag(s_arg1), s_1)>>, <<Flag(s_arg2), s_2>>, <<KV(Flag(s_arg2), <<"0">>)>>,
          <<KV(Flag(s_arg3), s_5)>>}
    ELSE {<<s_do_stuff>>, <<s_do>>, <<KV(Flag(s_shared), s_15)>>,
          <<KV(Flag(s_my_arg_dash), s_15)>>, <<KV(Flag(s_stuff), s_5)>>}

\* the command word, then the items
Argv(c, items) == <<c.name>> \o Cat(items)

\* what the callables of a command do when invoked
Ctors == {PyNone, Raised("Exception")}
Bodies == {PyInt(45), Raised("Exception")}
AllBodies == {PyInt(45), PyInt(0), PyNone, PyBool(TRUE), PyBool(FALSE), PyStr(s_nubia),
              Raised("Exception")}
\* what is_blacklisted does
Blacklists == {PyBool(FALSE), PyInt(0), PyNone, PyBool(TRUE), PyInt(7), Raised("Exception")}

---------------------------------------------------------------------------
(* the operations *)

NoMessage == [msg |-> "none", names |-> {}]

\* no operation in progress: the caller is about to issue the next one
Idle == [kind |-> "idle"]

Init ==
    /\ op = Idle
    /\ result = PyNone
    /\ exit_code = PyNone
    /\ calls = <<>>
    /\ printed = NoMessage
    /\ verbose = 0
    /\ cmd_instance_map = RegistryAfterInit
    /\ listeners = <<>>
    /\ delivered = <<>>
    /\ stop_requested = FALSE
    /\ loop_pc = "idle"
    /\ lines_read = 0

\* IOLoop.parse_and_evaluate on one line
Evaluate(c, toks, blacklist, ctor, body) ==
    /\ op.kind = "idle"
    /\ \E out \in {parse_and_evaluate(cmd_instance_map, Line(c, toks), blacklist, ctor, body,
                                      verbose)} :
        /\ op' = [kind |-> "interactive", c |-> c.fn, toks |-> toks, blacklist |-> blacklist,
                  ctor |-> ctor, body |-> body]
        /\ result' = out.result
        /\ exit_code' = PyNone
        /\ calls' = out.calls
        /\ printed' = out.printed
        /\ verbose' = out.verbose
    /\ UNCHANGED <<cmd_instance_map, listeners, delivered, stop_requested, loop_pc, lines_read>>

\* Nubia.run on one command line
Run(c, items, blacklist, ctor, body) ==
    /\ op.kind = "idle"
    /\ \E r \in {Nubia_run(cmd_instance_map, Argv(c, items), blacklist, ctor, body, verbose)} :
        /\ op' = [kind |-> "cli", c |-> c.fn, toks |-> items, blacklist |-> blacklist,
                  ctor |-> ctor, body |-> body]
        /\ result' = r.out.result
        /\ exit_code' = r.exit_code
        /\ calls' = r.out.calls
        /\ printed' = r.out.printed
        /\ verbose' = r.out.verbose
    /\ UNCHANGED <<cmd_instance_map, listeners, delivered, stop_requested, loop_pc, lines_read>>

EvalLine ==
    \E c \in {test_command, mutex_command, SuperCommand} :
        \E toks \in SeqsUpTo(Tokens(c), MaxTokens), ctor \in Ctors, body \in Bodies :
            Evaluate(c, toks, PyBool(FALSE), IF c = SuperCommand THEN ctor ELSE PyNone, body)

RunCli ==
    \E c \in {test_command, mutex_command, SuperCommand} :
        \E items \in SeqsUpTo(Items(c), MaxItems), ctor \in Ctors, body \in Bodies :
            Run(c, items, PyBool(FALSE), IF c = SuperCommand THEN ctor ELSE PyNone, body)

\* the operation has returned and its caller goes on to the next one; what
\* the operation changed in the context and the registry stays
Return ==
    /\ op.kind \in {"interactive", "cli"}
    /\ op' = Idle
    /\ result' = PyNone
    /\ exit_code' = PyNone
    /\ calls' = <<>>
    /\ printed' = NoMessage
    /\ UNCHANGED <<verbose, cmd_instance_map, listeners, delivered, stop_requested, loop_pc, lines_read>>

Next == EvalLine \/ RunCli \/ Return

Spec == Init /\ [][Next]_vars

\* well-formed lines, one per command, for the operations whose outcome
\* depends on what the blacklist and the callables do
GoodTokens(c) ==
    IF c = test_command THEN <<KV(s_arg1, s_1), s_2, s_nubia>>
    ELSE IF c = mutex_command THEN <<KV(s_arg1, s_1)>>
    ELSE <<s_do_stuff, KV(s_stuff, s_5)>>
GoodItems(c) ==
    IF c = test_command THEN <<<<KV(Flag(s_arg1), s_1)>>, <<s_2>>, <<s_nubia>>>>
    ELSE IF c = mutex_command THEN <<<<KV(Flag(s_arg1), s_1)>>>>
    ELSE <<<<s_do_stuff>>, <<KV(Flag(s_stuff), s_5)>>>>

EvalGoodLine ==
    \E c \in {test_command, mutex_command, SuperCommand} :
        \E blacklist \in Blacklists, ctor \in Ctors, body \in AllBodies :
            Evaluate(c, GoodTokens(c), blacklist, IF c = SuperCommand THEN ctor ELSE PyNone, body)

RunGoodLine ==
    \E c \in {test_command, mutex_command, SuperCommand} :
        \E blacklist \in Blacklists, ctor \in Ctors, body \in AllBodies :
            Run(c, GoodItems(c), blacklist, IF c = SuperCommand THEN ctor ELSE PyNone, body)

NextOutcomes == EvalGoodLine \/ RunGoodLine \/ Return

SpecOutcomes == Init /\ [][NextOutcomes]_vars

---------------------------------------------------------------------------
(* the registry operations *)

MaxNames == 2
MaxListeners == 3

s_foo == <<"f","o","o">>
s_Foo == <<"F","o","o">>
s_bar == <<"b","a","r">>
Names == {s_foo, s_Foo, s_bar}
Instances == {"A", "B"}

InitRegistry ==
    /\ op = Idle
    /\ result = PyNone
    /\ exit_code = PyNone
    /\ calls = <<>>
    /\ printed = NoMessage
    /\ verbose = 0
    /\ cmd_instance_map = <<>>
    /\ listeners = <<>>
    /\ delivered = <<>>
    /\ stop_requested = FALSE
    /\ loop_pc = "idle"
    /\ lines_read = 0

\* CommandsRegistry.register_command(cmd_instance, override)
RegisterCommand ==
    /\ op.kind = "idle"
    /\ \E k \in 1..MaxNames : \E cmd_keys \in [1..k -> Names], inst \in Instances,
                                 override \in BOOLEAN :
        \E r \in {register_command(cmd_instance_map, cmd_keys, <<>>, inst, override)} :
           /\ op' = [kind |-> "register", cmd_keys |-> cmd_keys, inst |-> inst,
                     override |-> override, before |-> cmd_instance_map]
           /\ result' = IF r.raised THEN Raised("ValueError") ELSE PyNone
           /\ cmd_instance_map' = r.map
           /\ UNCHANGED <<exit_code, calls, printed, verbose, listeners, delivered,
                          stop_requested, loop_pc, lines_read>>

\* CommandsRegistry.find_command(cmd)
FindCommand ==
    \E cmd \in Names :
        /\ op.kind = "idle"
        /\ op' = [kind |-> "find", cmd |-> cmd]
        /\ result' = PyStr(find_command(cmd_instance_map, cmd))
        /\ UNCHANGED <<exit_code, calls, printed, verbose, cmd_instance_map, listeners,
                       delivered, stop_requested, loop_pc, lines_read>>

\* the listeners of the model: what their on_connected does
Listeners ==
    {[id |-> "ctx", on_connected |-> PyNone],
     [id |-> "bar", on_connected |-> Raised("Exception")],
     [id |-> "abstract", on_connected |-> Raised("NotImplementedError")]}

RegisterListener ==
    \E l \in Listeners :
        /\ op.kind = "idle"
        /\ Len(listeners) < MaxListeners
        /\ op' = [kind |-> "register_listener", listener |-> l.id]
        /\ listeners' = register_listener(listeners, l)
        /\ delivered' = <<>>
        /\ UNCHANGED <<result, exit_code, calls, printed, verbose, cmd_instance_map,
                       stop_requested, loop_pc, lines_read>>

RegisterPriorityListener ==
    \E l \in Listeners :
        /\ op.kind = "idle"
        /\ Len(listeners) < MaxListeners
        /\ op' = [kind |-> "register_priority_listener", listener |-> l.id]
        /\ listeners' = register_priority_listener(listeners, l)
        /\ delivered' = <<>>
        /\ UNCHANGED <<result, exit_code, calls, printed, verbose, cmd_instance_map,
                       stop_requested, loop_pc, lines_read>>

\* CommandsRegistry.dispatch_message(Message.CONNECTED)
DispatchMessage ==
    /\ op.kind = "idle"
    /\ \E r \in {dispatch_message(listeners)} :
       /\ op' = [kind |-> "dispatch"]
       /\ result' = r.result
       /\ delivered' = r.delivered
       /\ UNCHANGED <<exit_code, calls, printed, verbose, cmd_instance_map, listeners,
                      stop_requested, loop_pc, lines_read>>

\* the registry operation has returned
ReturnRegistry ==
    /\ op.kind \in {"register", "find", "register_listener", "register_priority_listener", "dispatch"}
    /\ op' = Idle
    /\ result' = PyNone
    /\ delivered' = <<>>
    /\ UNCHANGED <<exit_code, calls, printed, verbose, cmd_instance_map, listeners,
                   stop_requested, loop_pc, lines_read>>

NextRegistry == RegisterCommand \/ FindCommand \/ ReturnRegistry

SpecRegistry == InitRegistry /\ [][NextRegistry]_vars

NextDispatch == RegisterListener \/ RegisterPriorityListener \/ DispatchMessage \/ ReturnRegistry

SpecDispatch == InitRegistry /\ [][NextDispatch]_vars

---------------------------------------------------------------------------
(* IOLoop.run *)

MaxLines == 4

s_nope == <<"n","o","p","e">>

\* what the prompt gives the loop: a line, or EOFError at end of input
\* (on_exit=RAISE_EXCEPTION).  The lines: one that runs, one that fails to
\* parse, one with a missing argument, one with an unknown key, an unknown
\* command, one that fails coercion, a subcommand line, and exit
LoopLines ==
    {Line(test_command, GoodTokens(test_command)),
     Line(test_command, <<s_2, KV(s_arg1, s_1)>>),
     Line(test_command, <<>>),
     Line(test_command, <<KV(s_zz, s_1)>>),
     s_nope,
     Line(SuperCommand, <<s_do_stuff, KV(s_stuff, s_nubia)>>),
     Line(SuperCommand, GoodTokens(SuperCommand)),
     s_exit}

InitLoop ==
    /\ op = Idle
    /\ result = PyNone
    /\ exit_code = PyNone
    /\ calls = <<>>
    /\ printed = NoMessage
    /\ verbose = 0
    /\ cmd_instance_map = RegistryAfterInit
    /\ listeners = <<>>
    /\ delivered = <<>>
    /\ stop_requested = FALSE
    /\ loop_pc = "reading"
    /\ lines_read = 0

\* one turn of `while not self.stop_requested` that reads a line and
\* evaluates it: EOFError and KeyboardInterrupt are caught around the loop
\* and stop it, any other exception leaves run
ReadLine ==
    /\ loop_pc = "reading" /\ ~stop_requested
    /\ lines_read < MaxLines
    /\ \E line \in LoopLines, body \in Bodies \cup {Raised("KeyboardInterrupt")} :
       \E ctor \in IF split_command(line)[1] = SuperCommand.name THEN Ctors ELSE {PyNone} :
       \E out \in {parse_and_evaluate(cmd_instance_map, line, PyBool(FALSE), ctor, body,
                                      verbose)} :
           /\ op' = [kind |-> "line", line |-> line, ctor |-> ctor, body |-> body]
           /\ lines_read' = lines_read + 1
           /\ result' = out.result
           /\ calls' = out.calls
           /\ printed' = out.printed
           /\ verbose' = out.verbose
           /\ stop_requested' = (out.result \in {Raised("EOFError"),
                                                  Raised("KeyboardInterrupt")})
           /\ loop_pc' = IF out.result \in {Raised("EOFError"), Raised("KeyboardInterrupt")}
                         THEN "done"
                         ELSE IF IsRaised(out.result) THEN "crashed"
                         ELSE "reading"
    /\ UNCHANGED <<exit_code, cmd_instance_map, listeners, delivered>>

\* the prompt raises EOFError: end of input
EndOfInput ==
    /\ loop_pc = "reading" /\ ~stop_requested
    /\ op' = [kind |-> "eof"]
    /\ result' = PyNone
    /\ calls' = <<>>
    /\ printed' = NoMessage
    /\ stop_requested' = TRUE
    /\ loop_pc' = "done"
    /\ UNCHANGED <<exit_code, verbose, cmd_instance_map, listeners, delivered, lines_read>>

NextLoop == ReadLine \/ EndOfInput

SpecLoop == InitLoop /\ [][NextLoop]_vars

---------------------------------------------------------------------------
(* list values *)

MaxElems == 3

\* element tokens without quote, comma or space: a word, and words that look
\* like a boolean, an integer and a decimal number
ElemTokens == {<<"a">>, <<"t","r","u","e">>, <<"1">>, <<"1",".","5","0">>}

\* [e1, e2] or ["e1", "e2"], the elements separated by sep
ListText(elems, quoted, sep) ==
    <<"[">> \o Join(sep, [i \in 1..Len(elems) |->
                            IF quoted THEN <<"\"">> \o elems[i] \o <<"\"">> ELSE elems[i]])
            \o <<"]">>

\* `list-command arg=[...]` in interactive mode
EvalList ==
    /\ op.kind = "idle"
    /\ \E k \in 1..MaxElems : \E elems \in [1..k -> ElemTokens], quoted \in BOOLEAN,
                                 sep \in {<<",">>, <<",", " ">>} :
        \E toks \in {<<KV(s_arg, ListText(elems, quoted, sep))>>} :
        \E out \in {parse_and_evaluate(cmd_instance_map, Line(list_command, toks),
                                       PyBool(FALSE), PyNone, PyInt(22), verbose)} :
           /\ op' = [kind |-> "list", c |-> "list_command", toks |-> toks, elems |-> elems,
                     quoted |-> quoted, sep |-> sep]
           /\ result' = out.result
           /\ calls' = out.calls
           /\ printed' = out.printed
           /\ verbose' = out.verbose
           /\ UNCHANGED <<exit_code, cmd_instance_map, listeners, delivered, stop_requested,
                          loop_pc, lines_read>>

ReturnList ==
    /\ op.kind = "list"
    /\ op' = Idle
    /\ result' = PyNone
    /\ calls' = <<>>
    /\ printed' = NoMessage
    /\ UNCHANGED <<exit_code, verbose, cmd_instance_map, listeners, delivered, stop_requested,
                   loop_pc, lines_read>>

NextList == EvalList \/ ReturnList

SpecList == Init /\ [][NextList]_vars

---------------------------------------------------------------------------
(* typing/__init__.py: the @command decorator *)

\* transform_class_name(name): transform_name, then every upper-case letter
\* lower-cased, with a dash in front of it unless it comes first
transform_class_name(name) ==
    Cat([i \in 1..Len(transform_name(name, "_", "-")) |->
           IF transform_name(name, "_", "-")[i] \in UpperChars /\ i > 1
           THEN <<"-">> \o lower(<<transform_name(name, "_", "-")[i]>>)
           ELSE lower(<<transform_name(name, "_", "-")[i]>>)])

\* the forms of the decorator: `@command`, `@command(help=..)` and
\* `@command("name")`; name_or_function is the decorated object in the first
\* form, None in the second and the name in the third
DecoratorForms == {"bare", "called", "named"}

\* command(name_or_function, ..)(function).__command["name"]: obj is the
\* decorated function or class, name the explicit name of the third form.
\* is_supercommand is isclass(name_or_function)
command(form, obj, name) ==
    Bind(form = "bare" /\ obj.isclass, LAMBDA is_supercommand :
    IF form = "named" /\ name # <<>>
    THEN name
    ELSE IF ~is_supercommand
    THEN transform_name(obj.name, "_", "-")
    ELSE transform_class_name(obj.name))

\* the functions and classes that get decorated, and the explicit names
s_SuperCommand == <<"S","u","p","e","r","C","o","m","m","a","n","d">>
s_good_name == <<"g","o","o","d","-","n","a","m","e">>
s_bleh_command == <<"b","l","e","h","_","c","o","m","m","a","n","d">>
Decorated ==
    {[isclass |-> FALSE, name |-> <<"m","y","_","f","u","n","c","t","i","o","n">>],
     [isclass |-> FALSE, name |-> <<"_","_","f","o","o","_","_","b","a","r","_","_">>],
     [isclass |-> FALSE, name |-> <<"b","a","d","_","n","a","m","e">>],
     [isclass |-> FALSE, name |-> <<"t","r","i","p","l","e">>],
     [isclass |-> FALSE, name |-> <<"l","o","o","k","u","p","_","h","o","s","t","s">>],
     [isclass |-> TRUE, name |-> s_SuperCommand],
     [isclass |-> TRUE, name |-> <<"M","y","_","S","h","e","l","l">>],
     [isclass |-> TRUE, name |-> <<"P","i","c","k">>]}
ExplicitNames == {s_good_name, s_bleh_command, <<"M","i","x","e","d","_">>}

\* the commands that get decorated and registered
MaxCommands == 2

\* a function or a class is decorated and inspected
Decorate ==
    /\ op.kind = "idle"
    /\ Len(cmd_instance_map) < MaxCommands
    /\ \E form \in DecoratorForms, obj \in Decorated, name \in ExplicitNames :
        /\ op' = [kind |-> "command", form |-> form, obj |-> obj,
                  name |-> IF form = "named" THEN name ELSE <<>>]
        /\ result' = PyStr(command(form, obj, IF form = "named" THEN name ELSE <<>>))
    /\ UNCHANGED <<exit_code, calls, printed, verbose, cmd_instance_map, listeners, delivered,
                   stop_requested, loop_pc, lines_read>>

\* the decorated object is registered under its name, as Nubia.__init__
\* registers the commands of its packages: AutoCommand(cmd), override=True
ReturnDecorate ==
    /\ op.kind = "command"
    /\ op' = Idle
    /\ result' = PyNone
    /\ cmd_instance_map' =
          register_command(cmd_instance_map, <<result.v>>, <<>>, op.obj.name, TRUE).map
    /\ UNCHANGED <<exit_code, calls, printed, verbose, listeners, delivered,
                   stop_requested, loop_pc, lines_read>>

NextDecorate == Decorate \/ ReturnDecorate

SpecDecorate == InitRegistry /\ [][NextDecorate]_vars

---------------------------------------------------------------------------
(* registry.py: find_approx *)

\* the least element of a non-empty set of numbers
Min(S) == CHOOSE x \in S : \A y \in S : x <= y

\* the last index before `before` at which s holds c, or 0
LastIndexOf(s, c, before) ==
    IF \E k \in 1..(before - 1) : s[k] = c
    THEN CHOOSE k \in 1..(before - 1) : s[k] = c /\ \A k2 \in (k + 1)..(before - 1) : s[k2] # c
    ELSE 0

\* the cost of reaching (i, j) by a transposition, k and l the last places
\* where the crossing characters were seen; rows[i + 1][j + 1] is the cell
\* (i, j) of the distance table
DLTransposition(rows, i, j, k, l) ==
    IF k = 0 \/ l = 0 THEN {}
    ELSE {rows[k][l] + (i - k - 1) + 1 + (j - l - 1)}

\* the cell (i, j), given the rows before i and the cells of row i before j
DLCell(a, b, rows, row, i, j) ==
    IF i = 0 THEN j
    ELSE IF j = 0 THEN i
    ELSE Min({rows[i][j + 1] + 1,
              row[j] + 1,
              rows[i][j] + (IF a[i] = b[j] THEN 0 ELSE 1)}
             \cup DLTransposition(rows, i, j,
                                  LastIndexOf(a, b[j], i), LastIndexOf(b, a[i], j)))

RECURSIVE DLRow(_, _, _, _, _)
DLRow(a, b, rows, i, row) ==
    IF Len(row) = Len(b) + 1 THEN row
    ELSE DLRow(a, b, rows, i, Append(row, DLCell(a, b, rows, row, i, Len(row))))

RECURSIVE DLRows(_, _, _)
DLRows(a, b, rows) ==
    IF Len(rows) = Len(a) + 1 THEN rows
    ELSE DLRows(a, b, Append(rows, DLRow(a, b, rows, Len(rows), <<>>)))

\* jellyfish.damerau_levenshtein_distance(this, that): insertions, deletions,
\* substitutions and transpositions of adjacent characters
damerau_levenshtein_distance(this, that) ==
    DLRows(this, that, <<>>)[Len(this) + 1][Len(that) + 1]

\* are_close_enough(this, that)
are_close_enough(this, that) == damerau_levenshtein_distance(this, that) <= 2

\* the suggestions of find_approx: the keys of the map, in insertion order,
\* that are close enough to command
suggestions(m, command_) ==
    SelectSeq([n \in 1..Len(m) |-> m[n].k], LAMBDA another : are_close_enough(command_, another))

\* find_approx(command): the text put into the `Unknown Command` message
find_approx(m, command_) ==
    Bind(suggestions(m, command_), LAMBDA s :
    IF s = <<>> THEN <<>>
    ELSE IF Len(s) = 1
    THEN <<" ","D","i","d"," ","y","o","u"," ","m","e","a","n"," ">> \o s[1] \o <<"?">>
    ELSE <<" ","D","i","d"," ","y","o","u"," ","m","e","a","n"," ">>
         \o Join(<<",", " ">>, SubSeq(s, 1, Len(s) - 1))
         \o <<" ","o","r"," ">> \o s[Len(s)] \o <<"?">>)

---------------------------------------------------------------------------
(* names that are not registered: the suggestions *)

\* the commands of the shell, in the order they are registered, each with
\* its aliases in the order given
ApproxCatalog ==
    <<[c |-> maintenance, aliases |-> <<>>], [c |-> malloc, aliases |-> <<>>],
      [c |-> move, aliases |-> <<>>], [c |-> list, aliases |-> <<>>],
      [c |-> command_first, aliases |-> <<<<"f","i","r","s","t">>>>],
      [c |-> command_second, aliases |-> <<<<"s","e","c","o","n","d">>>>]>>

\* what the user types
TypedWords ==
    {<<"l","s">>, <<"l","i","s">>, <<"m","a">>, <<"m">>, <<"a">>, <<"m","a","l">>,
     <<"m","a","i","n","t">>, <<"m","a","i","n","t","e","n","a","n","e","c">>,
     <<"l","i","s","t">>, <<"f","i","r","s","t">>, <<"f">>, <<"f","i","r","t","s">>,
     <<"f","i","r","s">>, <<"c","o","m","m","a","n","d">>}

\* the next command of the catalog is registered, as Nubia.__init__ registers
\* the commands of the plugin
RegisterApprox ==
    /\ op.kind = "idle"
    /\ \E n \in 1..Len(ApproxCatalog) :
        /\ ~Contains(cmd_instance_map, ApproxCatalog[n].c.name)
        /\ n > 1 => Contains(cmd_instance_map, ApproxCatalog[n - 1].c.name)
        /\ cmd_instance_map' =
              register_command(cmd_instance_map,
                               get_command_names(ApproxCatalog[n].c, ApproxCatalog[n].aliases),
                               <<>>, ApproxCatalog[n].c.fn, TRUE).map
    /\ UNCHANGED <<op, result, exit_code, calls, printed, verbose, listeners, delivered,
                   stop_requested, loop_pc, lines_read>>

\* CommandsRegistry.find_approx(word)
FindApprox ==
    /\ op.kind = "idle"
    /\ \E word \in TypedWords :
        /\ op' = [kind |-> "find_approx", word |-> word]
        /\ result' = PyStr(find_approx(cmd_instance_map, word))
    /\ UNCHANGED <<exit_code, calls, printed, verbose, cmd_instance_map, listeners, delivered,
                   stop_requested, loop_pc, lines_read>>

\* IOLoop.parse_and_evaluate on a line that holds one word
EvalTyped ==
    /\ op.kind = "idle"
    /\ \E word \in TypedWords, body \in Bodies :
       \E out \in {parse_and_evaluate(cmd_instance_map, word, PyBool(FALSE), PyNone, body,
                                      verbose)} :
        /\ op' = [kind |-> "typed", word |-> word, body |-> body]
        /\ result' = out.result
        /\ calls' = out.calls
        /\ printed' = out.printed
        /\ verbose' = out.verbose
    /\ UNCHANGED <<exit_code, cmd_instance_map, listeners, delivered, stop_requested, loop_pc,
                   lines_read>>

\* Nubia.run on a command line that holds one word
RunTyped ==
    /\ op.kind = "idle"
    /\ \E word \in TypedWords, body \in Bodies :
       \E r \in {Nubia_run(cmd_instance_map, <<word>>, PyBool(FALSE), PyNone, body, verbose)} :
        /\ op' = [kind |-> "typed_cli", word |-> word, body |-> body]
        /\ result' = r.out.result
        /\ exit_code' = r.exit_code
        /\ calls' = r.out.calls
        /\ printed' = r.out.printed
        /\ verbose' = r.out.verbose
    /\ UNCHANGED <<cmd_instance_map, listeners, delivered, stop_requested, loop_pc, lines_read>>

ReturnApprox ==
    /\ op.kind \in {"find_approx", "typed", "typed_cli"}
    /\ op' = Idle
    /\ result' = PyNone
    /\ exit_code' = PyNone
    /\ calls' = <<>>
    /\ printed' = NoMessage
    /\ UNCHANGED <<verbose, cmd_instance_map, listeners, delivered, stop_requested, loop_pc,
                   lines_read>>

NextApprox == RegisterApprox \/ FindApprox \/ EvalTyped \/ RunTyped \/ ReturnApprox

SpecApprox == InitRegistry /\ [][NextApprox]_vars

---------------------------------------------------------------------------
(* the lines of the commands with aliases, choices and generic types *)

s_x == <<"x">>
s_12 == <<"1","2">>
s_99 == <<"9","9">>
s_tea == <<"t","e","a">>
s_pink == <<"p","i","n","k">>
s_true == <<"t","r","u","e">>

\* [e1,e2], the elements unquoted
Bracketed(elems) == ListText(elems, FALSE, <<",">>)

\* the tokens of the interactive lines, by command
ArgTokens(c) ==
    IF c = execute
    THEN {KV(s_arg1, s_nubia), KV(s_arg2, Bracketed(<<s_1, s_2>>)), KV(s_arg2, Bracketed(<<s_x>>)),
          KV(s_a, s_nubia), KV(s_b, Bracketed(<<s_1, s_2>>)), KV(s_verbose, s_1), KV(s_zz, s_1)}
    ELSE IF c = pick
    THEN {KV(s_style, s_test), KV(s_style, s_tea),
          KV(s_stuff, Bracketed(<<s_red>>)), KV(s_stuff, Bracketed(<<s_red, s_pink>>)),
          KV(s_stuff, s_red), KV(s_code, s_12), KV(s_code, s_99), KV(s_code, s_x)}
    ELSE {KV(s_n, s_5), KV(s_n, s_x), KV(s_n, Bracketed(<<s_1>>)),
          KV(s_m, s_5), KV(s_m, Bracketed(<<s_a>>)),
          KV(s_t, Bracketed(<<s_a, s_1>>)), KV(s_t, Bracketed(<<s_a, s_b>>)), KV(s_t, s_5),
          KV(s_t, s_true),
          KV(s_o, s_5), KV(s_o, s_x), KV(s_o, Bracketed(<<s_1>>)),
          KV(s_l, Bracketed(<<s_1>>)), KV(s_l, s_x), KV(s_verbose, s_1)}

\* the argv items of `execute`: each argument under its display name and
\* under its alias
ArgItems ==
    {<<Flag(s_arg1), s_nubia>>, <<<<"-">> \o s_a, s_nubia>>,
     <<Flag(s_arg2), s_1, s_2>>, <<<<"-">> \o s_b, s_1, s_2>>}

\* the registry once a plugin's execute, pick and convert are registered
RegistryArgs ==
    LET r1 == register_command(RegistryAfterInit, get_command_names(execute, <<>>), <<>>, "foo", TRUE).map
        r2 == register_command(r1, get_command_names(pick, <<>>), <<>>, "pick", TRUE).map
    IN register_command(r2, get_command_names(convert, <<>>), <<>>, "convert", TRUE).map

InitArgs ==
    /\ op = Idle
    /\ result = PyNone
    /\ exit_code = PyNone
    /\ calls = <<>>
    /\ printed = NoMessage
    /\ verbose = 0
    /\ cmd_instance_map = RegistryArgs
    /\ listeners = <<>>
    /\ delivered = <<>>
    /\ stop_requested = FALSE
    /\ loop_pc = "idle"
    /\ lines_read = 0

\* the longest lines: pick needs its three arguments, the others are told
\* apart by two tokens
MaxArgTokens == 2

EvalArgs ==
    \E c \in {execute, pick, convert} :
        \E toks \in SeqsUpTo(ArgTokens(c), IF c = pick THEN MaxArgTokens + 1 ELSE MaxArgTokens),
           body \in Bodies :
            Evaluate(c, toks, PyBool(FALSE), PyNone, body)

RunArgs ==
    \E items \in SeqsUpTo(ArgItems, MaxItems), body \in Bodies :
        Run(execute, items, PyBool(FALSE), PyNone, body)

NextArgs == EvalArgs \/ RunArgs \/ Return

SpecArgs == InitArgs /\ [][NextArgs]_vars

---------------------------------------------------------------------------
(* the command lines of the commands with renamed arguments *)

RenamedCommands == {foo_different_name, foo_bar, rename}

\* the argv items, by command: every option string of every argument with
\* a value, and the parameter name as an option where it is no option string
NameItems(c) ==
    IF c = foo_different_name
    THEN {<<Flag(s_banana), s_nubia>>, <<Flag(s_apple), s_x>>, <<Flag(s_arg1), s_nubia>>}
    ELSE IF c = foo_bar
    THEN {<<Flag(<<"a","r","g","-","1">>), s_x>>, <<Flag(<<"a","r","g","u","m","e","n","t","-","1">>), s_x>>,
          <<Flag(<<"a","r","g","u","m","e","n","t","-","2">>), s_a>>}
    ELSE {<<Flag(s_my_name), s_nubia>>, <<<<"-">> \o s_n, s_x>>, <<Flag(s_arg), s_nubia>>}

\* the registry once a plugin's foo, foo-bar and rename are registered
RegistryNames ==
    LET r1 == register_command(RegistryAfterInit, get_command_names(foo_different_name, <<>>),
                               <<>>, "foo_different_name", TRUE).map
        r2 == register_command(r1, get_command_names(foo_bar, <<>>), <<>>, "__foo__bar__", TRUE).map
    IN register_command(r2, get_command_names(rename, <<>>), <<>>, "rename", TRUE).map

InitNames ==
    /\ op = Idle
    /\ result = PyNone
    /\ exit_code = PyNone
    /\ calls = <<>>
    /\ printed = NoMessage
    /\ verbose = 0
    /\ cmd_instance_map = RegistryNames
    /\ listeners = <<>>
    /\ delivered = <<>>
    /\ stop_requested = FALSE
    /\ loop_pc = "idle"
    /\ lines_read = 0

RunNames ==
    \E c \in RenamedCommands :
        \E items \in SeqsUpTo(NameItems(c), MaxItems), body \in Bodies :
            Run(c, items, PyBool(FALSE), PyNone, body)

NextNames == RunNames \/ Return

SpecNames == InitNames /\ [][NextNames]_vars

---------------------------------------------------------------------------
(* typing/__init__.py: inspect_object on a decorated function, and the lines
   with positional values *)

\* @argument(arg, positional=...): the _ArgDecoratorSpec stored under arg
ArgDecoratorSpec(arg, positional) ==
    [arg |-> arg, name |-> transform_name(arg, "_", "-"), aliases |-> {},
     positional |-> positional, choices |-> <<>>]

\* arguments listed in the order the decorators were applied
inspect_arguments_decorator_order(args, specs) ==
    [n \in 1..Len(specs) |->
        Argument(specs[n].arg, specs[n].name, TNone, FALSE, PyNone, specs[n].aliases,
                 specs[n].positional, specs[n].choices)]

\* the arguments inspect_object builds: one per parameter, in the order of
\* the signature, each with the decorator spec stored under its name (specs
\* is in the order the decorators were applied) or the empty spec
inspect_arguments(args, specs) ==
    [i \in 1..Len(args) |->
        IF \E n \in 1..Len(specs) : specs[n].arg = args[i]
        THEN Bind(specs[CHOOSE n \in 1..Len(specs) : specs[n].arg = args[i]], LAMBDA sp :
                  Argument(args[i], sp.name, TNone, FALSE, PyNone, sp.aliases, sp.positional,
                           sp.choices))
        ELSE Arg(args[i], TNone, FALSE, PyNone, FALSE)]

\* def foo(arg1, arg2, arg3) of tests/typing_test.py
FooSignature == <<s_arg1, s_arg2, s_arg3>>

\* the orders in which the three @argument decorators can be written
DecoratorOrders ==
    {p \in [1..Len(FooSignature) -> 1..Len(FooSignature)] : \A i, j \in DOMAIN p : p[i] = p[j] => i = j}

\* which of the parameters are declared positional
PositionalSets == {{s_arg1, s_arg2, s_arg3}, {s_arg2, s_arg3}, {s_arg1, s_arg3}, {}}

\* foo decorated in the given order
foo_positional(order, positional) ==
    Inspection("foo_positional", s_foo, {}, {},
               inspect_arguments(FooSignature,
                                 [n \in 1..Len(order) |->
                                    ArgDecoratorSpec(FooSignature[order[n]],
                                                     FooSignature[order[n]] \in positional)]))

PositionalTokens == {KV(s_arg2, s_2), s_x, s_nubia, s_a}

\* run_interactive of foo on a line
EvalPositional ==
    /\ op.kind = "idle"
    /\ \E order \in DecoratorOrders, positional \in PositionalSets,
          toks \in SeqsUpTo(PositionalTokens, MaxTokens) :
        \E out \in {run_interactive(foo_positional(order, positional), s_foo,
                                    Join(<<" ">>, toks), PyNone, PyInt(45), verbose)} :
           /\ op' = [kind |-> "positional", order |-> order, positional |-> positional,
                     toks |-> toks]
           /\ result' = out.result
           /\ calls' = out.calls
           /\ printed' = out.printed
           /\ verbose' = out.verbose
           /\ UNCHANGED <<exit_code, cmd_instance_map, listeners, delivered, stop_requested,
                          loop_pc, lines_read>>

ReturnPositional ==
    /\ op.kind = "positional"
    /\ op' = Idle
    /\ result' = PyNone
    /\ calls' = <<>>
    /\ printed' = NoMessage
    /\ UNCHANGED <<exit_code, verbose, cmd_instance_map, listeners, delivered, stop_requested,
                   loop_pc, lines_read>>

NextPositional == EvalPositional \/ ReturnPositional

SpecPositional == Init /\ [][NextPositional]_vars

---------------------------------------------------------------------------
(* nubia.py: Nubia.start_interactive when standard input is not a terminal *)

\* def __init__(self, context, plugin, usagelogger)
IOLoop_init_parameters == <<"context", "plugin", "usagelogger">>

\* IOLoop(*args): binding the arguments to the parameters of __init__ is a
\* TypeError unless there is one argument for each parameter
IOLoop_new(args) ==
    IF Len(args) = Len(IOLoop_init_parameters) THEN [t |-> "IOLoop", v |-> args]
    ELSE Raised("TypeError")

\* _create_interactive_io_loop(args):
\* IOLoop(self._ctx, self._plugin, self.usage_logger, self._options)
_create_interactive_io_loop == IOLoop_new(<<"_ctx", "_plugin", "usage_logger", "_options">>)

\* `for command in commands`: each line is evaluated in turn; the first
\* truthy result is returned, an exception leaves the loop, and after the
\* last line the last result is returned (0 when there was no line).  acc
\* holds the result so far, the calls made, the number of lines evaluated
\* and the verbosity
RECURSIVE read_commands(_, _, _, _)
read_commands(m, commands, bodies, acc) ==
    IF acc.lines_read = Len(commands) THEN acc
    ELSE Bind(parse_and_evaluate(m, commands[acc.lines_read + 1], PyBool(FALSE), PyNone,
                                 bodies[acc.lines_read + 1], acc.verbose), LAMBDA out :
         Bind([result |-> out.result, calls |-> acc.calls \o out.calls,
               lines_read |-> acc.lines_read + 1, verbose |-> out.verbose], LAMBDA next :
         IF IsRaised(out.result) \/ Truthy(out.result) THEN next
         ELSE read_commands(m, commands, bodies, next)))

\* start_interactive(args) with commands = sys.stdin.readlines(); the lines
\* are given without their terminators
start_interactive(m, commands, bodies, verbose0) ==
    IF IsRaised(_create_interactive_io_loop)
    THEN [result |-> _create_interactive_io_loop, calls |-> <<>>, lines_read |-> 0,
          verbose |-> verbose0]
    ELSE read_commands(m, commands, bodies,
                       [result |-> PyInt(0), calls |-> <<>>, lines_read |-> 0,
                        verbose |-> verbose0])

MaxStdin == 3

\* the lines of the input: one that runs its command, one with a missing
\* argument and an unknown command
StdinLines ==
    {Line(test_command, GoodTokens(test_command)), Line(test_command, <<>>), s_nope}
\* what the command body returns for a line
StdinBodies == {PyInt(0), PyInt(22)}

StartInteractive ==
    /\ op.kind = "idle"
    /\ \E k \in 0..MaxStdin : \E commands \in [1..k -> StdinLines], bodies \in [1..k -> StdinBodies] :
        \E out \in {start_interactive(cmd_instance_map, commands, bodies, verbose)} :
           /\ op' = [kind |-> "stdin", commands |-> commands, bodies |-> bodies]
           /\ result' = out.result
           /\ calls' = out.calls
           /\ lines_read' = out.lines_read
           /\ verbose' = out.verbose
           /\ UNCHANGED <<exit_code, printed, cmd_instance_map, listeners, delivered,
                          stop_requested, loop_pc>>

ReturnStdin ==
    /\ op.kind = "stdin"
    /\ op' = Idle
    /\ result' = PyNone
    /\ calls' = <<>>
    /\ lines_read' = 0
    /\ UNCHANGED <<exit_code, printed, verbose, cmd_instance_map, listeners, delivered,
                   stop_requested, loop_pc>>

NextStdin == StartInteractive \/ ReturnStdin

SpecStdin == Init /\ [][NextStdin]_vars

---------------------------------------------------------------------------
(* context.py and registry.py: the shared session state and the threads
   that use it *)

\* the line-evaluation loop and the status bar
Threads == {"loop", "status_bar"}

\* the accessors of the shared state: whether the body is inside `with
\* self._lock`, what it touches and how
SharedMethods ==
    {[name |-> "Context.set_args", locked |-> TRUE, target |-> "_args", mode |-> "write"],
     [name |-> "Context.set_verbose", locked |-> TRUE, target |-> "_args.verbose", mode |-> "write"],
     [name |-> "Context.args", locked |-> TRUE, target |-> "_args", mode |-> "read"],
     [name |-> "CommandsRegistry.set_cli_args", locked |-> FALSE, target |-> "registry._args",
      mode |-> "write"],
     [name |-> "CommandsRegistry.get_cli_arg", locked |-> FALSE, target |-> "registry._args",
      mode |-> "read"]}

\* the verbosities the writers store
Verbosities == {0, 1}

NoThread == "none"
NoAccess == [thread |-> NoThread]
AtRest == [at |-> "idle"]

InitThreads ==
    /\ op = [kind |-> "threads", lock |-> NoThread, pc |-> [t \in Threads |-> AtRest],
             cli_args |-> 0, last |-> NoAccess]
    /\ result = PyNone
    /\ exit_code = PyNone
    /\ calls = <<>>
    /\ printed = NoMessage
    /\ verbose = 0
    /\ cmd_instance_map = RegistryAfterInit
    /\ listeners = <<>>
    /\ delivered = <<>>
    /\ stop_requested = FALSE
    /\ loop_pc = "idle"
    /\ lines_read = 0

ThreadFrame == <<result, exit_code, calls, printed, cmd_instance_map, listeners, delivered,
                 stop_requested, loop_pc, lines_read>>

\* a thread calls an accessor, with the value to store when it is a writer
CallMethod ==
    /\ op.kind = "threads"
    /\ \E t \in Threads, m \in SharedMethods, v \in Verbosities :
          /\ op.pc[t].at = "idle"
          /\ m.mode = "read" => v = 0
          /\ op' = [op EXCEPT !.pc[t] = [at |-> "called", m |-> m, v |-> v]]
    /\ UNCHANGED <<verbose, ThreadFrame>>

\* `with self._lock`: the RLock is taken when no other thread holds it
AcquireLock ==
    /\ op.kind = "threads"
    /\ \E t \in Threads :
          /\ op.pc[t].at = "called"
          /\ op.pc[t].m.locked
          /\ op.lock = NoThread
          /\ op' = [op EXCEPT !.lock = t, !.pc[t].at = "inside"]
    /\ UNCHANGED <<verbose, ThreadFrame>>

\* the body of the accessor reads or writes its target
Access ==
    /\ op.kind = "threads"
    /\ \E t \in Threads :
          /\ op.pc[t].at \in {"called", "inside"}
          /\ op.pc[t].at = IF op.pc[t].m.locked THEN "inside" ELSE "called"
          /\ op' = [op EXCEPT !.pc[t].at = "accessed",
                              !.cli_args = IF op.pc[t].m.name = "CommandsRegistry.set_cli_args"
                                           THEN op.pc[t].v ELSE @,
                              !.last = [thread |-> t, method |-> op.pc[t].m.name,
                                        target |-> op.pc[t].m.target, mode |-> op.pc[t].m.mode,
                                        lock |-> op.lock]]
          /\ verbose' = IF op.pc[t].m.target \in {"_args", "_args.verbose"} /\ op.pc[t].m.mode = "write"
                        THEN op.pc[t].v ELSE verbose
    /\ UNCHANGED ThreadFrame

\* the accessor returns, leaving the with block when it has one.  The caller
\* of Context.args goes on to read .verbose of the object it got
ReturnMethod ==
    /\ op.kind = "threads"
    /\ \E t \in Threads :
          /\ op.pc[t].at = "accessed"
          /\ op' = [op EXCEPT !.lock = IF op.pc[t].m.locked THEN NoThread ELSE @,
                              !.pc[t] = IF op.pc[t].m.name = "Context.args"
                                        THEN [at |-> "called", v |-> 0,
                                              m |-> [name |-> "ctx.args.verbose", locked |-> FALSE,
                                                     target |-> "_args.verbose", mode |-> "read"]]
                                        ELSE AtRest]
    /\ UNCHANGED <<verbose, ThreadFrame>>

NextThreads == CallMethod \/ AcquireLock \/ Access \/ ReturnMethod

SpecThreads == InitThreads /\ [][NextThreads]_vars

---------------------------------------------------------------------------
(* typing/__init__.py: inspect_object on a super-command class *)

\* the attributes a class under inspection may have, as dir() lists them
\* (sorted by name).  command: decorated with @command; help: a docstring or
\* the help of the annotation
ClassAttributes ==
    <<[attr |-> "_private", callable |-> TRUE, command |-> TRUE, help |-> TRUE],
      [attr |-> "a_cmd", callable |-> TRUE, command |-> TRUE, help |-> TRUE],
      [attr |-> "b_nohelp", callable |-> TRUE, command |-> TRUE, help |-> FALSE],
      [attr |-> "data", callable |-> FALSE, command |-> FALSE, help |-> FALSE],
      [attr |-> "helper", callable |-> TRUE, command |-> FALSE, help |-> TRUE],
      [attr |-> "m_cmd", callable |-> TRUE, command |-> TRUE, help |-> TRUE],
      [attr |-> "z_cmd", callable |-> TRUE, command |-> TRUE, help |-> TRUE]>>

\* attr.startswith("_")
IsPrivateAttr(a) == a.attr = "_private"

\* inspect_object(candidate, accept_bound_methods=True).command: None
\* unless the candidate carries __command
CandidateCommand(a) == IF a.command THEN [t |-> "Command", name |-> a.attr, help |-> a.help] ELSE PyNone

\* the loop over dir(obj): acc = [subcommands, warned]; reading .help of a
\* None command raises AttributeError
RECURSIVE inspect_subcommands(_, _, _)
inspect_subcommands(attrs, i, acc) ==
    IF i > Len(attrs) THEN acc
    ELSE IF IsPrivateAttr(attrs[i]) \/ ~attrs[i].callable THEN inspect_subcommands(attrs, i + 1, acc)
    ELSE IF CandidateCommand(attrs[i]) = PyNone
         THEN [acc EXCEPT !.subcommands = Raised("AttributeError")]
    ELSE IF ~CandidateCommand(attrs[i]).help
         THEN inspect_subcommands(attrs, i + 1, [acc EXCEPT !.warned = Append(@, attrs[i].attr)])
    ELSE inspect_subcommands(attrs, i + 1, [acc EXCEPT !.subcommands = Append(@, attrs[i].attr)])

\* inspect_object(cls) for a class: a required argument of __init__ is
\* rejected, then the subcommands are collected
inspect_class(cls) ==
    IF cls.init_required THEN [subcommands |-> Raised("ValueError"), warned |-> <<>>]
    ELSE inspect_subcommands(cls.attrs, 1, [subcommands |-> <<>>, warned |-> <<>>])

\* dir() of the class holding the attributes numbered by S
DirOf(S) == SelectSeq(ClassAttributes, LAMBDA a : \E i \in S : ClassAttributes[i] = a)

InitInspect ==
    /\ \E S \in SUBSET (1..Len(ClassAttributes)), r \in BOOLEAN :
          op = [kind |-> "class", attrs |-> DirOf(S), init_required |-> r]
    /\ result = PyNone
    /\ exit_code = PyNone
    /\ calls = <<>>
    /\ printed = NoMessage
    /\ verbose = 0
    /\ cmd_instance_map = RegistryAfterInit
    /\ listeners = <<>>
    /\ delivered = <<>>
    /\ stop_requested = FALSE
    /\ loop_pc = "idle"
    /\ lines_read = 0

\* inspect_object(SuperCommand)
InspectObject ==
    /\ op.kind = "class"
    /\ op' = [op EXCEPT !.kind = "inspected"]
    /\ result' = inspect_class(op).subcommands
    /\ calls' = inspect_class(op).warned
    /\ UNCHANGED <<exit_code, printed, verbose, cmd_instance_map, listeners, delivered,
                   stop_requested, loop_pc, lines_read>>

NextInspect == InspectObject

SpecInspect == InitInspect /\ [][NextInspect]_vars

---------------------------------------------------------------------------
(* parser.py: the value of one unquoted scalar token *)

MaxScalarLen == 3

\* the characters of the tokens, and the tokens: short words over them and
\* the four boolean literals
ScalarChars == {"-", "1", "5", ".", "a"}
ScalarTokens ==
    (SeqsUpTo(ScalarChars, MaxScalarLen) \ {<<>>})
        \cup {<<"T","r","u","e">>, <<"t","r","u","e">>, <<"F","a","l","s","e">>,
              <<"f","a","l","s","e">>}

\* parser.parse("arg1=<token>"): the value stored under arg1 and the
\* positionals, or the CommandParseError
parse_scalar(tok) ==
    Bind(parse(KV(s_arg1, tok), FALSE), LAMBDA p :
         IF p.ok /\ Len(p.kv) = 1
         THEN [value |-> p.kv[1].v, positionals |-> p.positionals]
         ELSE [value |-> Raised("CommandParseError"), positionals |-> <<>>])

InitScalar ==
    /\ \E tok \in ScalarTokens : op = [kind |-> "token", tok |-> tok]
    /\ result = PyNone
    /\ exit_code = PyNone
    /\ calls = <<>>
    /\ printed = NoMessage
    /\ verbose = 0
    /\ cmd_instance_map = RegistryAfterInit
    /\ listeners = <<>>
    /\ delivered = <<>>
    /\ stop_requested = FALSE
    /\ loop_pc = "idle"
    /\ lines_read = 0

ParseScalar ==
    /\ op.kind = "token"
    /\ op' = [op EXCEPT !.kind = "scalar"]
    /\ result' = parse_scalar(op.tok).value
    /\ calls' = parse_scalar(op.tok).positionals
    /\ UNCHANGED <<exit_code, printed, verbose, cmd_instance_map, listeners, delivered,
                   stop_requested, loop_pc, lines_read>>

NextScalar == ParseScalar

SpecScalar == InitScalar /\ [][NextScalar]_vars

---------------------------------------------------------------------------
(* blackcmd.py: a blacklist of command names, and the lines that name a
   blocked command in another way *)

\* CommandBlacklist.is_blacklisted(command): command in self._blacklisted_commands
is_blacklisted(blocked, name) == PyBool(name \in blocked)

s_first == <<"f","i","r","s","t">>
s_second == <<"s","e","c","o","n","d">>

\* the registry once a plugin's command_first (alias first) and
\* command_second (alias second) are registered
RegistryBlacklist ==
    register_command(
        register_command(RegistryAfterInit, get_command_names(command_first, <<s_first>>), <<>>,
                         command_first.fn, TRUE).map,
        get_command_names(command_second, <<s_second>>), <<>>, command_second.fn, TRUE).map

\* what add_blocked_command has been given
BlockedSets == SUBSET {command_first.name, command_second.name}

\* the command words typed: the names, other spellings of them, the aliases
BlockedWords ==
    {command_first.name, command_second.name, s_first, s_second,
     <<"C","o","m","m","a","n","d","_","F","i","r","s","t">>,
     <<"C","O","M","M","A","N","D","_","S","E","C","O","N","D">>,
     <<"F","i","r","s","t">>}

InitBlacklist ==
    /\ op = Idle
    /\ result = PyNone
    /\ exit_code = PyNone
    /\ calls = <<>>
    /\ printed = NoMessage
    /\ verbose = 0
    /\ cmd_instance_map = RegistryBlacklist
    /\ listeners = <<>>
    /\ delivered = <<>>
    /\ stop_requested = FALSE
    /\ loop_pc = "idle"
    /\ lines_read = 0

\* IOLoop.parse_and_evaluate on a line of one word, the blacklist asked about
\* the word as typed
EvalBlocked ==
    /\ op.kind = "idle"
    /\ \E word \in BlockedWords, blocked \in BlockedSets, body \in Bodies :
       \E out \in {parse_and_evaluate(cmd_instance_map, word,
                                      is_blacklisted(blocked, split_command(word)[1]),
                                      PyNone, body, verbose)} :
        /\ op' = [kind |-> "blocked", word |-> word, blocked |-> blocked, body |-> body]
        /\ result' = out.result
        /\ calls' = out.calls
        /\ printed' = out.printed
        /\ verbose' = out.verbose
    /\ UNCHANGED <<exit_code, cmd_instance_map, listeners, delivered, stop_requested, loop_pc,
                   lines_read>>

\* Nubia.run on a command line of one word, the blacklist asked about
\* args._cmd, the word as typed
RunBlocked ==
    /\ op.kind = "idle"
    /\ \E word \in BlockedWords, blocked \in BlockedSets, body \in Bodies :
       \E r \in {Nubia_run(cmd_instance_map, <<word>>, is_blacklisted(blocked, word), PyNone,
                           body, verbose)} :
        /\ op' = [kind |-> "blocked_cli", word |-> word, blocked |-> blocked, body |-> body]
        /\ result' = r.out.result
        /\ exit_code' = r.exit_code
        /\ calls' = r.out.calls
        /\ printed' = r.out.printed
        /\ verbose' = r.out.verbose
    /\ UNCHANGED <<cmd_instance_map, listeners, delivered, stop_requested, loop_pc, lines_read>>

ReturnBlocked ==
    /\ op.kind \in {"blocked", "blocked_cli"}
    /\ op' = Idle
    /\ result' = PyNone
    /\ exit_code' = PyNone
    /\ calls' = <<>>
    /\ printed' = NoMessage
    /\ UNCHANGED <<verbose, cmd_instance_map, listeners, delivered, stop_requested, loop_pc,
                   lines_read>>

NextBlacklist == EvalBlocked \/ RunBlocked \/ ReturnBlocked

SpecBlacklist == InitBlacklist /\ [][NextBlacklist]_vars

---------------------------------------------------------------------------
(* interactive.py: one IOLoop after another in the same process *)

MaxSessions == 2

\* IOLoop(context, plugin, usagelogger): the new object registers itself as
\* a listener; stop_requested is an attribute of the class and __init__ does
\* not assign it
IOLoop_init(ls) == register_listener(ls, [id |-> Len(ls) + 1, on_connected |-> PyNone])

InitSessions ==
    /\ op = Idle
    /\ result = PyNone
    /\ exit_code = PyNone
    /\ calls = <<>>
    /\ printed = NoMessage
    /\ verbose = 0
    /\ cmd_instance_map = RegistryAfterInit
    /\ listeners = IOLoop_init(<<>>)
    /\ delivered = <<>>
    /\ stop_requested = FALSE
    /\ loop_pc = "reading"
    /\ lines_read = 0

\* the run of the previous IOLoop is over; a new IOLoop is created and its
\* run() is entered
NewIOLoop ==
    /\ loop_pc \in {"done", "crashed"}
    /\ Len(listeners) < MaxSessions
    /\ op' = [kind |-> "new_loop"]
    /\ listeners' = IOLoop_init(listeners)
    /\ loop_pc' = "reading"
    /\ lines_read' = 0
    /\ result' = PyNone
    /\ calls' = <<>>
    /\ printed' = NoMessage
    /\ UNCHANGED <<exit_code, verbose, cmd_instance_map, delivered, stop_requested>>

\* `while not self.stop_requested` finds the stop requested: run() leaves the
\* loop without a read
LoopExit ==
    /\ loop_pc = "reading"
    /\ stop_requested
    /\ op' = [kind |-> "loop_exit"]
    /\ loop_pc' = "done"
    /\ result' = PyNone
    /\ calls' = <<>>
    /\ printed' = NoMessage
    /\ UNCHANGED <<exit_code, verbose, cmd_instance_map, listeners, delivered, stop_requested,
                   lines_read>>

NextSessions == ReadLine \/ EndOfInput \/ NewIOLoop \/ LoopExit

SpecSessions == InitSessions /\ [][NextSessions]_vars

---------------------------------------------------------------------------
(* the properties *)

\* the line of the last operation, as the user wrote it: the subcommand
\* word of a super-command, the key=value tokens and the positional values
OpCommand == CommandOf(op.c)
OpIsSuper == Len(OpCommand.subcommands) > 0
OpSubcommand == subcommand_metadata(OpCommand, op.toks[1]).inspection
OpArguments == IF OpIsSuper THEN OpSubcommand.arguments ELSE OpCommand.arguments
OpFn == IF OpIsSuper THEN _find_subcommand_attr(OpCommand, op.toks[1]).attr ELSE op.c
OpTokens == IF OpIsSuper THEN Tail(op.toks) ELSE op.toks
OpKeyTokens == SelectSeq(OpTokens, LAMBDA tok : EqualsAt(tok) # 0)
OpKeys == {OptionString(OpKeyTokens[n]) : n \in 1..Len(OpKeyTokens)}
OpValueOf(k) == ExplicitArg(OpKeyTokens[CHOOSE n \in 1..Len(OpKeyTokens) : OptionString(OpKeyTokens[n]) = k])
OpPositionals == SelectSeq(OpTokens, LAMBDA tok : EqualsAt(tok) = 0)
\* all key=value tokens come before the positional values
OpKeysFirst ==
    \A i, j \in 1..Len(OpTokens) :
        (EqualsAt(OpTokens[i]) # 0 /\ EqualsAt(OpTokens[j]) = 0) => i < j
\* the function, or the subcommand method, was invoked
OpInvoked == \E i \in 1..Len(calls) : calls[i].fn = OpFn
OpCall == calls[CHOOSE i \in 1..Len(calls) : calls[i].fn = OpFn]
\* the positional arguments that have no key=value token
OpFreeSlots == _positional_arguments(OpArguments, OpKeys)

\* the errors reported before the missing-argument check
EarlierErrors ==
    {"parse_error", "subcommand_missing", "subcommand_invalid", "no_positionals",
     "too_many_positionals", "duplicate_keys", "unknown", "unknown_command"}

\* U: the declared arguments with no default, no key=value token and no
\* positional value bound to them
OpUnmet ==
    LET bound == {OpFreeSlots[i] : i \in 1..Len(OpFreeSlots)} \cap
                 {OpFreeSlots[i] : i \in 1..Len(OpPositionals)}
    IN {OpArguments[n].name : n \in
          {n \in 1..Len(OpArguments) :
             /\ ~OpArguments[n].default_value_set
             /\ OpArguments[n].name \notin OpKeys \cup bound}}

\* C1: an interactive line that parses and passes the positional and
\* unknown-key checks, and leaves a non-empty set U of required arguments
\* unmet, returns 3, reports exactly U, and does not invoke the function
C1_MissingRequired ==
    (/\ op.kind = "interactive"
     /\ printed.msg \notin EarlierErrors
     /\ ~IsRaised(result)
     /\ OpUnmet # {})
    => /\ result = PyInt(3)
       /\ printed = [msg |-> "missing", names |-> OpUnmet]
       /\ ~OpInvoked

\* `test-command 2`: the positional value goes to arg2, and arg1 and arg3 are
\* reported together
C1_Witness ==
    /\ op.kind = "interactive" /\ op.c = "test_command" /\ op.toks = <<s_2>>
    /\ result = PyInt(3)
    /\ printed.names = {s_arg1, s_arg3}
    /\ OpUnmet = {s_arg1, s_arg3}
    /\ calls = <<>>

\* C2 (as amended): when an argument that can be positional is given by
\* key=value in a line that also has positional values, the duplicate-key
\* error is never reported: a positional value before a key=value token is a
\* parse failure (result 1); otherwise the positional values go, in order, to
\* the positional arguments that have no key=value token, and the line is
\* rejected with result 2 (too many positional values) exactly when there are
\* more values than such arguments; the function is invoked only in the last
\* case, with every positional value in its slot
C2_KeyedPositional ==
    (/\ op.kind = "interactive" /\ ~OpIsSuper
     /\ OpPositionals # <<>>
     /\ \E n \in 1..Len(OpArguments) : OpArguments[n].positional /\ OpArguments[n].name \in OpKeys)
    => /\ printed.msg # "duplicate_keys"
       /\ ~OpKeysFirst => (result = PyInt(1) /\ printed.msg = "parse_error" /\ calls = <<>>)
       /\ (OpKeysFirst /\ Len(OpPositionals) > Len(OpFreeSlots))
             => /\ result = PyInt(2)
                /\ printed.msg \in {"too_many_positionals", "no_positionals"}
                /\ calls = <<>>
       /\ OpInvoked =>
             /\ OpKeysFirst /\ Len(OpPositionals) <= Len(OpFreeSlots)
             /\ \A i \in 1..Len(OpPositionals) : OpCall.kwargs[OpFreeSlots[i]] = PyStr(OpPositionals[i])
             /\ \A k \in OpKeys : OpCall.kwargs[k] = PyStr(OpValueOf(k))

\* `test-command arg1=1 arg2=2 nubia`: arg2 is given by key, the positional
\* value goes to arg3 and the function runs
C2_Witness ==
    /\ op.kind = "interactive" /\ op.c = "test_command"
    /\ op.toks = <<KV(s_arg1, s_1), KV(s_arg2, s_2), s_nubia>>
    /\ result = PyInt(45)
    /\ OpInvoked
    /\ OpCall.kwargs[s_arg3] = PyStr(s_nubia)

\* C2 (as stated): an argument supplied both by a positional value and by a
\* key=value token is rejected with the duplicate-key error, result 2, and
\* the function is not invoked, whichever comes first in the text.  The
\* argument of a positional value is the positional argument at its place
C2_DuplicateKeyError ==
    (/\ op.kind = "interactive" /\ ~OpIsSuper
     /\ LET ps == _positional_arguments(OpArguments, {})
        IN \E i \in 1..Len(OpPositionals) : i <= Len(ps) /\ ps[i] \in OpKeys)
    => /\ result = PyInt(2)
       /\ printed.msg = "duplicate_keys"
       /\ ~OpInvoked

\* the command line of the last operation, as the user wrote it: its tokens,
\* the display names given with a flag, and its words
CliTokens == Cat(op.toks)
CliFlags ==
    {SubSeq(OptionString(CliTokens[n]), 3, Len(OptionString(CliTokens[n]))) :
        n \in {n \in 1..Len(CliTokens) : IsOption(CliTokens[n])}}
\* the calls of the last operation to fn
CallsOf(fn) == SelectSeq(calls, LAMBDA call : call.fn = fn)

\* C3 (as stated): with the exclusive group {arg1, arg2}, a command line
\* with flags for both is a parse-time error and the command is not invoked,
\* a command line with a flag for at most one of them invokes it, and an
\* interactive line with both keys invokes it with both values
C3_ExclusiveGroup ==
    /\ (op.kind = "cli" /\ op.c = "mutex_command")
       => /\ {s_arg1, s_arg2} \subseteq CliFlags => (exit_code = SystemExit /\ calls = <<>>)
          /\ ~({s_arg1, s_arg2} \subseteq CliFlags) => Len(CallsOf("mutex_command")) = 1
    /\ (op.kind = "interactive" /\ op.c = "mutex_command" /\ {s_arg1, s_arg2} \subseteq OpKeys)
       => /\ Len(CallsOf("mutex_command")) = 1
          /\ OpCall.kwargs[s_arg1] = PyStr(s_1)
          /\ OpCall.kwargs[s_arg2] = PyStr(s_2)

\* the constructor was called once with 15 for each of its arguments whose
\* display name is in flags (the others absent or at their defaults), then
\* the method once with stuff=5 and nothing else, and the result is the
\* method's
RoutedWith(flags) ==
    /\ Len(calls) = 2
    /\ calls[1].fn = "SuperCommand" /\ calls[2].fn = "do_stuff"
    /\ \A n \in 1..Len(SuperCommand.arguments) :
          LET a == SuperCommand.arguments[n]
          IN IF a.name \in flags
             THEN /\ a.arg \in DOMAIN calls[1].kwargs
                  /\ PyToStr(calls[1].kwargs[a.arg]) = s_15
             ELSE a.arg \in DOMAIN calls[1].kwargs => calls[1].kwargs[a.arg] = a.default_value
    /\ DOMAIN calls[1].kwargs \subseteq {s_shared, s_my_arg}
    /\ calls[2].kwargs = [k \in {s_stuff} |-> PyInt(5)]
    /\ result = op.body

\* C5 (as stated): `super-command do-stuff K=15 .. stuff=5` in interactive
\* mode, and `super-command [--K=15] do-stuff --stuff=5 [--K=15]` in CLI
\* mode, K a display name of a constructor argument: the constructor gets
\* exactly the supplied values of its arguments, the method exactly stuff=5,
\* and the result is the method's
C5_SuperCommandRouting ==
    /\ (/\ op.kind = "interactive" /\ op.c = "SuperCommand"
        /\ op.ctor = PyNone /\ ~IsRaised(op.body)
        /\ Len(op.toks) >= 2 /\ op.toks[1] = s_do_stuff
        /\ OpPositionals = <<>>
        /\ Cardinality(OpKeys) = Len(OpKeyTokens)
        /\ s_stuff \in OpKeys /\ OpKeys \subseteq {s_shared, s_my_arg_dash, s_stuff})
       => RoutedWith(OpKeys)
    /\ (/\ op.kind = "cli" /\ op.c = "SuperCommand"
        /\ op.ctor = PyNone /\ ~IsRaised(op.body)
        /\ Len(SelectSeq(CliTokens, LAMBDA tok : ~IsOption(tok))) = 1
        /\ Cardinality(CliFlags) = Len(CliTokens) - 1
        /\ s_stuff \in CliFlags
        /\ \E i, j \in 1..Len(CliTokens) :
              i < j /\ ~IsOption(CliTokens[i]) /\ OptionString(CliTokens[j]) = Flag(s_stuff))
       => RoutedWith(CliFlags)

\* C6: in both modes, when is_blacklisted returns a truthy value the
\* callables of the command are not called and that value is the result;
\* when it returns a falsy value the command runs: its callables are called
\* and, when they return, the result is the body's
C6_Blacklist ==
    (op.kind \in {"interactive", "cli"} /\ ~IsRaised(op.blacklist))
    => IF Truthy(op.blacklist)
       THEN calls = <<>> /\ result = op.blacklist
       ELSE /\ Len(calls) >= 1
            /\ (op.ctor = PyNone /\ ~IsRaised(op.body))
               => (result = op.body /\ calls[Len(calls)].fn = (IF OpIsSuper THEN "do_stuff" ELSE op.c))

\* a blacklisted command in CLI mode: nothing called, True returned by run_cli
C6_Witness ==
    /\ op.kind = "cli" /\ op.c = "test_command"
    /\ op.blacklist = PyBool(TRUE) /\ op.body = PyInt(45)
    /\ calls = <<>>
    /\ result = PyBool(TRUE)

\* C10 (as stated): Nubia.run returns an integer result unchanged, 0 for
\* None, 1 for True, 0 for False, and 1 when the body raised
C10_ExitCode ==
    (/\ op.kind = "cli" /\ ~Blacklisted(op.blacklist)
     /\ exit_code # SystemExit /\ op.ctor = PyNone)
    => /\ op.body.t = "int" => exit_code = op.body
       /\ op.body = PyNone => exit_code = PyInt(0)
       /\ op.body = PyBool(TRUE) => exit_code = PyInt(1)
       /\ op.body = PyBool(FALSE) => exit_code = PyInt(0)
       /\ IsRaised(op.body) => exit_code = PyInt(1)

\* C7 (as stated): names compared case-insensitively, a register_command
\* call with override=False in which one of the names already maps to
\* another command raises and leaves the map unchanged; every accepted call
\* makes each of its names, in every letter case, find the command; and
\* find_command gives None for a name never registered
C7_Register ==
    /\ op.kind = "register"
       => /\ (/\ ~op.override
              /\ \E n \in 1..Len(op.cmd_keys) :
                    /\ Has(op.before, lower(op.cmd_keys[n]))
                    /\ Get(op.before, lower(op.cmd_keys[n])) # op.inst)
             => (IsRaised(result) /\ cmd_instance_map = op.before)
          /\ ~IsRaised(result)
             => \A n \in 1..Len(op.cmd_keys), cmd \in Names :
                   lower(cmd) = lower(op.cmd_keys[n])
                   => find_command(cmd_instance_map, cmd) = op.inst
    /\ op.kind = "find"
       => /\ (\A n \in 1..Len(cmd_instance_map) : cmd_instance_map[n].k # lower(op.cmd))
             => result = PyStr("None")
          /\ \A cmd \in Names :
                lower(cmd) = lower(op.cmd) => result = PyStr(find_command(cmd_instance_map, cmd))

\* C8 (as stated): dispatch_message runs on_connected of every listener in
\* list order, up to and including the first one that raises
\* NotImplementedError, which leaves dispatch_message; any other exception
\* stops nothing
C8_Dispatch ==
    op.kind = "dispatch"
    => LET S == {i \in 1..Len(listeners) : listeners[i].on_connected = Raised("NotImplementedError")}
           last == IF S = {} THEN Len(listeners) ELSE CHOOSE i \in S : \A j \in S : i <= j
       IN /\ delivered = [i \in 1..last |-> listeners[i].id]
          /\ result = IF S = {} THEN PyNone ELSE Raised("NotImplementedError")

\* C9 (as stated, for lines during which no key is pressed): after a line
\* other than exit the loop reads on, whatever the line did -- a parse
\* failure, a validation or coercion failure, an unknown command, an
\* exception in the body or in the constructor; IOLoop.run ends only at end
\* of input or on exit
C9_LoopGoesOn ==
    op.kind \in {"line", "eof"} /\ (op.kind = "line" => op.body # Raised("KeyboardInterrupt"))
    => /\ (op.kind = "line" /\ op.line # s_exit) => loop_pc = "reading"
       /\ loop_pc # "reading" => (op.kind = "eof" \/ op.line = s_exit)

\* C4 (as stated): the line with the elements unquoted and the line with the
\* same elements quoted deliver the same list to the command
C4_QuotedUnquoted ==
    op.kind = "list"
    => LET other == <<KV(s_arg, ListText(op.elems, ~op.quoted, op.sep))>>
       IN calls = parse_and_evaluate(cmd_instance_map, Line(list_command, other),
                                     PyBool(FALSE), PyNone, PyInt(22), verbose).calls

\* C14 (as stated): an exception raised by an invoked callable -- the
\* function, the subcommand method or the class constructor -- is caught
\* inside run_interactive and run_cli: the result is 1, and the registry's
\* name map and listener list are as they were
C14_ExceptionBoundary ==
    (/\ op.kind \in {"interactive", "cli"}
     /\ \/ IsRaised(op.ctor) /\ \E i \in 1..Len(calls) : calls[i].fn = "SuperCommand"
        \/ IsRaised(op.body) /\ \E i \in 1..Len(calls) : calls[i].fn # "SuperCommand")
    => /\ result = PyInt(1)
       /\ cmd_instance_map = RegistryAfterInit
       /\ listeners = <<>>

\* C15 (as stated): for the super-command in interactive mode, a line with
\* no subcommand token (the empty line, or a line that starts with
\* key=value) returns 2 with the `A sub-command must be supplied` message,
\* a line whose first word is no subcommand name or alias returns 2 with the
\* `Invalid sub-command` message, and in both cases nothing is called
C15_SubcommandErrors ==
    (op.kind = "interactive" /\ op.c = "SuperCommand")
    => /\ (op.toks = <<>> \/ (op.toks # <<>> /\ EqualsAt(op.toks[1]) # 0))
          => /\ result = PyInt(2)
             /\ printed.msg = "subcommand_missing"
             /\ calls = <<>>
       /\ (/\ op.toks # <<>> /\ EqualsAt(op.toks[1]) = 0
           /\ ~_find_subcommand_attr(SuperCommand, op.toks[1]).ok)
          => /\ result = PyInt(2)
             /\ printed.msg = "subcommand_invalid"
             /\ calls = <<>>

\* C19 (as stated): the external name of a command is the explicit name when
\* one is given, otherwise the function name with runs of underscores turned
\* into single dashes and the outer ones dropped, otherwise, for a class, the
\* class name in lower-case dashed form -- in every form of the decorator
C19_CommandName ==
    op.kind = "command"
    => result = PyStr(IF op.name # <<>> THEN op.name
                      ELSE IF op.obj.isclass THEN transform_class_name(op.obj.name)
                      ELSE transform_name(op.obj.name, "_", "-"))

\* the registered names, in registration order, that have the typed word as
\* a prefix, and the candidates of the approximate match: those, or, when
\* there is none, the names within distance 2
PrefixMatches ==
    SelectSeq([n \in 1..Len(cmd_instance_map) |-> cmd_instance_map[n].k],
              LAMBDA name : Len(op.word) <= Len(name) /\ SubSeq(name, 1, Len(op.word)) = op.word)
Candidates ==
    IF PrefixMatches # <<>> THEN PrefixMatches ELSE suggestions(cmd_instance_map, op.word)

\* C16 (as stated): find_approx returns the list of the registered names
\* that have the word as a prefix, in registration order, or, when there is
\* none, the names within Damerau-Levenshtein distance 2; over maintenance,
\* malloc, move, list: ls and lis give [list], ma gives [maintenance,
\* malloc], m gives [maintenance, malloc, move], a gives []
C16_FindApprox ==
    op.kind = "find_approx"
    => /\ result = PyList([n \in 1..Len(Candidates) |-> PyStr(Candidates[n])])
       /\ Len(cmd_instance_map) = 4
          => /\ op.word \in {<<"l","s">>, <<"l","i","s">>} => result = PyList(<<PyStr(list.name)>>)
             /\ op.word = <<"m","a">>
                => result = PyList(<<PyStr(maintenance.name), PyStr(malloc.name)>>)
             /\ op.word = <<"m">>
                => result = PyList(<<PyStr(maintenance.name), PyStr(malloc.name),
                                     PyStr(move.name)>>)
             /\ op.word = <<"a">> => result = PyList(<<>>)

\* C17 (as stated): in interactive mode a typed name that is not registered
\* runs the command of the single candidate, when there is exactly one, and
\* returns its result; with several candidates nothing runs and the result
\* is None; in CLI mode a name that is not registered runs nothing
C17_AutoExecute ==
    /\ (op.kind = "typed" /\ ~Contains(cmd_instance_map, op.word))
       => /\ Len(Candidates) = 1
             => /\ Len(calls) = 1
                /\ calls[1].fn = find_command(cmd_instance_map, Candidates[1])
                /\ result = IF IsRaised(op.body) THEN PyInt(1) ELSE op.body
          /\ Len(Candidates) > 1 => (calls = <<>> /\ result = PyNone)
    /\ (op.kind = "typed_cli" /\ ~Contains(cmd_instance_map, op.word))
       => (calls = <<>> /\ exit_code = SystemExit)

\* the key of a key=value token
KeyOf(tok) == SubSeq(tok, 1, EqualsAt(tok) - 1)

\* the token with an alias of an argument of c replaced by the display name
\* of that argument
UnderDisplayName(c, tok) ==
    LET S == {n \in 1..Len(c.arguments) : KeyOf(tok) \in c.arguments[n].extra_names}
    IN IF S = {} THEN tok
       ELSE KV(c.arguments[CHOOSE n \in S : TRUE].name, ExplicitArg(tok))

\* the line supplies no argument twice, aliases counted as their argument
NoArgumentTwice(c, toks) ==
    \A i, j \in 1..Len(toks) :
        KeyOf(UnderDisplayName(c, toks[i])) = KeyOf(UnderDisplayName(c, toks[j])) => i = j

\* C11 (as stated): an interactive line that supplies arguments of `execute`
\* under their aliases (a=..., b=...) has the same result and invokes the
\* callable with the same arguments as the line that supplies them under
\* their display names (arg1=..., arg2=...).
C11_AliasesInteractive ==
    (op.kind = "interactive" /\ op.c = "foo" /\ NoArgumentTwice(execute, op.toks)) =>
        \E out \in {parse_and_evaluate(cmd_instance_map,
                                       Line(execute, [i \in 1..Len(op.toks) |->
                                                        UnderDisplayName(execute, op.toks[i])]),
                                       PyBool(FALSE), PyNone, op.body, 0)} :
            result = out.result /\ calls = out.calls

\* the key/values an interactive line of tokens gives the command, the
\* reserved key left out
SuppliedArgs(toks) == Del(parse(Join(<<" ">>, toks), FALSE).kv, s_verbose)

\* C12 (as stated): when a value supplied to `convert` (arguments of type
\* int, Mapping[str, int], Tuple[str, int], Optional[int], List[int]) cannot
\* be converted to the declared type, run_interactive returns 4, invokes
\* nothing and lets no exception out -- a list given to the int argument and
\* a scalar given to the mapping argument included.
C12_CoercionFailure ==
    (/\ op.kind = "interactive" /\ op.c = "convert"
     /\ FirstRaised(Converted(convert.arguments, SuppliedArgs(op.toks))) # 0)
    => result = PyInt(4) /\ calls = <<>>

\* the value is one of the choices of the argument
InChoices(a, v) == \E j \in 1..Len(a.choices) : a.choices[j] = v

\* every converted value meets the choices of its argument, a list when
\* each of its elements does
ChoicesMet(arguments, args_dict) ==
    \A n \in 1..Len(args_dict) :
        LET a == ArgOf(arguments, args_dict[n].k)
        IN a.choices # <<>> =>
             IF IsListType(a.type)
             THEN \A i \in 1..Len(args_dict[n].v.v) : InChoices(a, args_dict[n].v.v[i])
             ELSE InChoices(a, args_dict[n].v)

\* C13 (as stated): a line that gives `pick` its three arguments with values
\* of the declared types invokes the command exactly when style and code are
\* among their choices and every element of the stuff list is among the
\* choices of stuff; otherwise the result is 4 and nothing is invoked.
C13_Choices ==
    (/\ op.kind = "interactive" /\ op.c = "pick"
     /\ Keys(SuppliedArgs(op.toks)) = ArgNames(pick.arguments)
     /\ FirstRaised(Converted(pick.arguments, SuppliedArgs(op.toks))) = 0)
    => IF ChoicesMet(pick.arguments, Converted(pick.arguments, SuppliedArgs(op.toks)))
       THEN Len(calls) = 1 /\ calls[1].fn = "pick"
       ELSE result = PyInt(4) /\ calls = <<>>

\* C20 (as stated): an interactive line that supplies the reserved key
\* verbose leaves the verbosity of the context as it was before the call,
\* whatever the outcome of the line (invoked, result 2, 3, 4 or 1).
C20_VerboseRestored ==
    [][(/\ op.kind = "idle" /\ op'.kind = "interactive"
        /\ \E i \in 1..Len(op'.toks) : KeyOf(op'.toks[i]) = s_verbose)
       => verbose' = verbose]_vars

\* the arguments of the command of the operation, and the items of the
\* command line that name the n-th of them by one of its option strings
RenamedArguments == CommandOf(op.c).arguments
ItemsNaming(n) == {i \in 1..Len(op.toks) : op.toks[i][1] \in OptionStrings(RenamedArguments[n])}

\* C18 (as stated): when a command line is accepted and the callable
\* invoked, every argument the line supplies -- under its display name, an
\* explicit name= (with underscores or with dashes) or an alias -- arrives
\* at the callable under the parameter name with a value the line gave it.
C18_CliRekeying ==
    (op.kind = "cli" /\ op.c \in {c.fn : c \in RenamedCommands} /\ Len(calls) = 1)
    => \A n \in 1..Len(RenamedArguments) :
          ItemsNaming(n) # {}
          => /\ RenamedArguments[n].arg \in DOMAIN calls[1].kwargs
             /\ \E i \in ItemsNaming(n) :
                   calls[1].kwargs[RenamedArguments[n].arg] = PyStr(op.toks[i][2])

\* the parameters of foo that a line can fill by position: declared
\* positional and not given by key, in signature order
Slots ==
    SelectSeq(FooSignature,
              LAMBDA a : a \in op.positional /\ a \notin Keys(parse(Join(<<" ">>, op.toks), FALSE).kv))
PositionalValues == parse(Join(<<" ">>, op.toks), FALSE).positionals

\* C21: the i-th positional value of a line goes to the i-th parameter, in
\* signature order whatever the order of the decorators, among those
\* declared positional and not given by key; more values than such
\* parameters give result 2 with nothing invoked, with one message when
\* there is no such parameter and another, naming them, otherwise.
C21_PositionalBinding ==
    (op.kind = "positional" /\ parse(Join(<<" ">>, op.toks), FALSE).ok)
    => IF Len(PositionalValues) > Len(Slots)
       THEN /\ result = PyInt(2)
            /\ calls = <<>>
            /\ printed = [msg |-> IF Slots = <<>> THEN "no_positionals" ELSE "too_many_positionals",
                          names |-> {Slots[i] : i \in 1..Len(Slots)}]
       ELSE /\ printed.msg \notin {"no_positionals", "too_many_positionals"}
            /\ Len(calls) = 1
               => \A i \in 1..Len(PositionalValues) :
                     calls[1].kwargs[Slots[i]] = PyStr(PyToStr(PositionalValues[i]))

\* three values bound by position with the decorators written in reverse
C21_Witness ==
    /\ op.kind = "positional"
    /\ op.order = [i \in 1..Len(FooSignature) |-> Len(FooSignature) + 1 - i]
    /\ op.toks = <<s_x, s_nubia, s_a>>
    /\ Len(calls) = 1
    /\ calls[1].kwargs = (s_arg1 :> PyStr(s_x) @@ s_arg2 :> PyStr(s_nubia) @@ s_arg3 :> PyStr(s_a))

\* a token without = is a bare value; in a line of a super-command the
\* first bare token is the subcommand, not a positional value
IsBare(tok) == EqualsAt(tok) = 0
PositionalBeforeKey(toks, from) ==
    \E i, j \in from..Len(toks) : i < j /\ IsBare(toks[i]) /\ ~IsBare(toks[j])

\* C22: an interactive line in which a positional value comes before a
\* key=value token is a parse failure: the result is 1 and nothing is
\* invoked; `test-command arg1=1 2 nubia`, the same tokens with the
\* key=value first, invokes the command with the three values.
C22_KeysBeforePositionals ==
    /\ (/\ op.kind = "interactive"
        /\ PositionalBeforeKey(op.toks, IF op.c = "SuperCommand" THEN 2 ELSE 1))
       => /\ result = PyInt(1)
          /\ printed.msg = "parse_error"
          /\ calls = <<>>
    /\ (/\ op.kind = "interactive" /\ op.c = "test_command"
        /\ op.toks = <<KV(s_arg1, s_1), s_2, s_nubia>>)
       => /\ Len(calls) = 1
          /\ calls[1].kwargs = (s_arg1 :> PyStr(s_1) @@ s_arg2 :> PyStr(s_2) @@ s_arg3 :> PyStr(s_nubia))

\* `test-command 2 nubia arg1=1` has been refused
C22_Witness ==
    /\ op.kind = "interactive" /\ op.c = "test_command"
    /\ op.toks = <<s_2, s_nubia, KV(s_arg1, s_1)>>
    /\ result = PyInt(1)
    /\ calls = <<>>

\* the result of the i-th line of the input on its own
LineResult(i) ==
    parse_and_evaluate(cmd_instance_map, op.commands[i], PyBool(FALSE), PyNone, op.bodies[i],
                       0).result
\* the lines whose result is truthy
TruthyLines == {i \in 1..Len(op.commands) : Truthy(LineResult(i))}

\* C23 (as stated): with standard input not a terminal, start_interactive
\* evaluates the lines in order up to and including the first one whose
\* result is truthy and returns that result; when no line has a truthy
\* result it evaluates every line and returns a falsy value.
C23_PipedInput ==
    op.kind = "stdin"
    => IF TruthyLines = {}
       THEN lines_read = Len(op.commands) /\ ~IsRaised(result) /\ ~Truthy(result)
       ELSE \E i \in TruthyLines :
               /\ \A j \in TruthyLines : i <= j
               /\ lines_read = i
               /\ result = LineResult(i)

\* C24 (as stated): every read and every write of the shared session state
\* -- the context's args and verbose flag, the registry's stored CLI
\* arguments -- is made by a thread that holds the context's lock.
C24_SharedStateLocked ==
    (op.kind = "threads" /\ op.last # NoAccess) => op.last.lock = op.last.thread

\* the attributes the subcommand list is to hold: public, callable,
\* annotated as commands, with help text
IsSubcommand(a) == ~IsPrivateAttr(a) /\ a.callable /\ a.command /\ a.help

\* C25 (as stated): inspecting a super-command class never raises, and its
\* subcommand list is exactly the public callable attributes annotated as
\* commands that have help text, in attribute order; a command without help
\* and a callable that is no command are skipped.
C25_SubcommandList ==
    op.kind = "inspected" =>
        result = [i \in 1..Len(SelectSeq(op.attrs, IsSubcommand)) |->
                     SelectSeq(op.attrs, IsSubcommand)[i].attr]

\* the same for classes whose public callables are all commands and whose
\* constructor needs no argument
C25_Scoped ==
    (/\ op.kind = "inspected"
     /\ ~op.init_required
     /\ \A i \in 1..Len(op.attrs) :
           (op.attrs[i].callable /\ ~IsPrivateAttr(op.attrs[i])) => op.attrs[i].command) =>
        result = [i \in 1..Len(SelectSeq(op.attrs, IsSubcommand)) |->
                     SelectSeq(op.attrs, IsSubcommand)[i].attr]

\* the text without its leading minus sign, if any
Unsigned(tok) == IF Len(tok) > 0 /\ tok[1] = "-" THEN Tail(tok) ELSE tok
AllDigits(t) == Len(t) > 0 /\ \A i \in 1..Len(t) : t[i] \in Digits

\* an optional minus followed by digits
IsIntegerText(tok) == AllDigits(Unsigned(tok))
\* an optional minus, digits, a decimal point, and digits or nothing
IsFloatText(tok) ==
    \E k \in 1..Len(Unsigned(tok)) :
        /\ Unsigned(tok)[k] = "."
        /\ AllDigits(SubSeq(Unsigned(tok), 1, k - 1))
        /\ \A i \in (k + 1)..Len(Unsigned(tok)) : Unsigned(tok)[i] \in Digits
IsBoolText(tok) ==
    tok \in {<<"T","r","u","e">>, <<"t","r","u","e">>, <<"F","a","l","s","e">>,
             <<"f","a","l","s","e">>}

\* the most specific type of a token
MostSpecificType(tok) ==
    IF IsIntegerText(tok) THEN "int"
    ELSE IF IsFloatText(tok) THEN "float"
    ELSE IF IsBoolText(tok) THEN "bool"
    ELSE "str"

\* C26 (as stated): the parser gives every unquoted scalar token its most
\* specific type: an optional minus and digits an integer, digits with a
\* decimal point a float, True/true/False/false a boolean, and only the other
\* tokens a string; `arg=5` yields the integer 5.
C26_MostSpecificType ==
    op.kind = "scalar" =>
        /\ result.t = MostSpecificType(op.tok)
        /\ op.tok = <<"5">> => result = PyInt(5)

\* the word resolves to a command whose name the blacklist blocks
ResolvesToBlocked(word, blocked) ==
    /\ Contains(cmd_instance_map, word)
    /\ CommandOf(find_command(cmd_instance_map, word)).name \in blocked

\* C27 (as stated): a command whose name is blacklisted is not executed
\* under any name that resolves to it: another letter case of the name or an
\* alias, interactive or CLI, calls the body zero times.
C27_BlacklistAllNames ==
    (op.kind \in {"blocked", "blocked_cli"} /\ ResolvesToBlocked(op.word, op.blocked)) =>
        calls = <<>>

\* C28 (as stated): every token the CLI accepts as the subcommand of a
\* super-command -- a subcommand name or alias, which _find_subcommand_attr
\* resolves -- is accepted by interactive mode too: subcommand_metadata
\* resolves it and the line is not refused as an invalid sub-command.
C28_SubcommandAliases ==
    (/\ op.kind = "interactive"
     /\ op.c = SuperCommand.fn
     /\ Len(op.toks) > 0
     /\ _find_subcommand_attr(SuperCommand, op.toks[1]).ok) =>
        /\ subcommand_metadata(SuperCommand, op.toks[1]).ok
        /\ printed.msg # "subcommand_invalid"

\* the listener whose registration is the operation in progress
RegisteredListener(o) == CHOOSE l \in Listeners : l.id = o.listener

C30_StopIsLocal ==
    /\ (op.kind = "new_loop" /\ loop_pc = "reading") => ~stop_requested
    /\ op.kind # "loop_exit"

====
